---------------------------- MODULE Spec2Model ----------------------------
(***************************************************************************)
(* Model of kale/evaluate/uncertainty_metrics.py: the three bin-wise       *)
(* scorers (bin_wise_bound_eval, bin_wise_errors, bin_wise_jaccard) and    *)
(* the fold/model aggregation template that drives them; and of           *)
(* quantile_binning_and_est_errors in                                      *)
(* kale/interpret/uncertainty_quantiles.py.                                *)
(*                                                                         *)
(* Numbers.  Errors and bound thresholds are naturals; every ratio the     *)
(* code computes in floating point is kept as an exact reduced fraction    *)
(* [k |-> "num", n, d]; numpy's nan is [k |-> "nan"] and Python's None is  *)
(* [k |-> "None"].  Bins are numbered 0..num_bins-1 in the code and live   *)
(* at positions 1..num_bins of the sequences here (bin q at q + 1).        *)
(* A Python dict is a sequence of <<key, value>> pairs in insertion order. *)
(***************************************************************************)
EXTENDS Integers, Sequences, FiniteSets, TLC

VARIABLES
    handler,              \* which evaluator runs: "bound", "jaccard", "error"
    num_bins,             \* self.num_bins
    original_num_bins,    \* self.original_num_bins
    combine_middle_bins,  \* self.combine_middle_bins
    targets,              \* self.targets (sequence of target indices)
    num_folds,            \* self.num_folds
    kwargs,               \* estimated_bounds / error_scaling_factor of the call
    bin_predictions,      \* model name -> sample table (sequence of rows)
    uncertainty_pairs,    \* sequence of <<uncertainty type, label>> pairs
    model,                \* the model evaluate() is working on
    uncertainty_type,     \* the uncertainty type evaluate() is working on
    fold,                 \* the fold _process_folds is working on
    fold_data,            \* what _extract_fold_data returned for the fold
    fold_result,          \* what the scorer returned for the fold
    scorer_locals,        \* the scorer's per-target locals when it returned
    raised,               \* the exception that left evaluate(), "" if none
    remaining,            \* the (model, uncertainty type) iterations still to run
    fold_accumulator,     \* the dict _process_folds fills
    results,              \* the dict evaluate() fills
    returned,             \* what evaluate() returned
    pc,                   \* position in BaseUncertaintyEvaluator.evaluate
    errors,               \* quantile_binning_and_est_errors: its errors argument
    uncertainties,        \* its uncertainties argument
    type,                 \* its type argument
    ir,                   \* the IsotonicRegression, <<>> until it is fitted
    uncert_boundaries,    \* the boundaries built so far
    estimated_errors,     \* the estimated error bounds built so far
    allocated,            \* how many result dicts _initialize_results has created
    calls                 \* the results of earlier evaluate() calls, as the caller holds them

\* fixed by the constructor and the call of evaluate(), with what the caller
\* holds while the call runs
call == <<handler, num_bins, original_num_bins, combine_middle_bins, targets,
          num_folds, kwargs, bin_predictions, uncertainty_pairs, calls>>

\* the arguments and locals of quantile_binning_and_est_errors
binning == <<errors, uncertainties, type, ir, uncert_boundaries, estimated_errors>>

vars == <<call, binning, allocated, model, uncertainty_type, fold, fold_data, fold_result,
          scorer_locals, raised, remaining, fold_accumulator, results, returned, pc>>

----------------------------------------------------------------------------
(* Bounds of the model *)

MaxSamples == 3          \* rows of a sample table
ErrorValues == 0..2      \* the errors and bound thresholds of the inputs
BinCounts == {2, 3}      \* the num_bins the evaluators are constructed with

----------------------------------------------------------------------------
(* Exact arithmetic standing for the code's floats *)

RECURSIVE GCD(_, _)
GCD(a, b) == IF b = 0 THEN a ELSE GCD(b, a % b)

Rat(n, d) == LET g == GCD(n, d) IN [k |-> "num", n |-> n \div g, d |-> d \div g]
NaN == [k |-> "nan", n |-> 0, d |-> 1]
None == [k |-> "None", n |-> 0, d |-> 1]
IsNum(x) == x.k = "num"

RAdd(x, y) == Rat(x.n * y.d + y.n * x.d, x.d * y.d)
RMul(x, y) == Rat(x.n * y.n, x.d * y.d)
RDivInt(x, c) == Rat(x.n, x.d * c)
RLeq(x, y) == x.n * y.d <= y.n * x.d
RLess(x, y) == x.n * y.d < y.n * x.d

RECURSIVE RSum(_)
RSum(s) == IF s = <<>> THEN Rat(0, 1) ELSE RAdd(Head(s), RSum(Tail(s)))

\* np.mean: nan for an empty list, nan as soon as one element is nan
np_mean(s) ==
    IF s = <<>> \/ \E i \in 1..Len(s) : ~IsNum(s[i]) THEN NaN
    ELSE RDivInt(RSum(s), Len(s))

RECURSIVE SumSeq(_)
SumSeq(s) == IF s = <<>> THEN 0 ELSE Head(s) + SumSeq(Tail(s))

----------------------------------------------------------------------------
(* Python dicts and the per-target slices every scorer starts with *)

DictKeys(d) == {d[i][1] : i \in 1..Len(d)}

DictPut(d, key, val) ==
    IF \E i \in 1..Len(d) : d[i][1] = key
    THEN [i \in 1..Len(d) |-> IF d[i][1] = key THEN <<key, val>> ELSE d[i]]
    ELSE Append(d, <<key, val>>)

\* dict(zip(rows.uid, rows[column]))
RECURSIVE DictZip(_, _)
DictZip(rows, column) ==
    IF rows = <<>> THEN <<>>
    ELSE LET front == SubSeq(rows, 1, Len(rows) - 1)
             last == rows[Len(rows)]
         IN  DictPut(DictZip(front, column), last["uid"], last[column])

\* a list comprehension, built once: [f(x) for x in ...]
list(f) == SubSeq(f, 1, Len(f))

\* the variant that takes as many rows as the mask selects, from the top
MaskRows_FromTop(frame, mask) ==
    SubSeq(frame, 1, Cardinality({i \in 1..Len(mask) : mask[i]}))

\* frame[mask]: the rows of frame at the positions where the mask holds
RECURSIVE MaskRows(_, _)
MaskRows(frame, mask) ==
    IF frame = <<>> THEN <<>>
    ELSE LET rest == MaskRows(Tail(frame), Tail(mask))
         IN  IF Head(mask) THEN <<Head(frame)>> \o rest ELSE rest
\* mutant of TargetMask: the rows of the target and of every later target
TargetMask_AndLater(fold_errors, target_idx) ==
    list([i \in 1..Len(fold_errors) |-> fold_errors[i]["target_idx"] >= target_idx])


\* fold_errors["target_idx"] == target_idx
TargetMask(fold_errors, target_idx) ==
    list([i \in 1..Len(fold_errors) |-> fold_errors[i]["target_idx"] = target_idx])

ErrorColumn(utype) == utype \o " Error"
BinsColumn(utype) == utype \o " Uncertainty bins"

true_errors_ti(fold_errors, target_idx, utype) ==
    DictZip(MaskRows(fold_errors, TargetMask(fold_errors, target_idx)),
            ErrorColumn(utype))

pred_bins_ti(fold_errors, fold_bins, target_idx, utype) ==
    DictZip(MaskRows(fold_bins, TargetMask(fold_errors, target_idx)),
            BinsColumn(utype))

----------------------------------------------------------------------------
(* Bin grouping, shared by the three scorers *)

\* [key for key, val in pred_bins.items() if str(j) == str(val)]
RECURSIVE KeysWithLabel(_, _)
KeysWithLabel(pred_bins, j) ==
    IF pred_bins = <<>> THEN <<>>
    ELSE LET rest == KeysWithLabel(Tail(pred_bins), j)
         IN  IF Head(pred_bins)[2] = j THEN <<Head(pred_bins)[1]>> \o rest ELSE rest

pred_bins_keys(pred_bins, nbins) ==
    list([b \in 1..nbins |-> KeysWithLabel(pred_bins, b - 1)])

\* list([val for key, val in true_errors.items() if str(key) == str(id_)])
RECURSIVE ValuesOfKey(_, _)
ValuesOfKey(true_errors, id) ==
    IF true_errors = <<>> THEN <<>>
    ELSE LET rest == ValuesOfKey(Tail(true_errors), id)
         IN  IF Head(true_errors)[1] = id THEN <<Head(true_errors)[2]>> \o rest ELSE rest

\* the [0] of the lookup raises IndexError when the id has no error
LookupFails(pred_bins, true_errors, nbins) ==
    \E i \in 1..Len(pred_bins) :
        /\ pred_bins[i][2] \in 0..(nbins - 1)
        /\ ValuesOfKey(true_errors, pred_bins[i][1]) = <<>>

pred_bins_errors(pred_bins, true_errors, nbins) ==
    LET keys == pred_bins_keys(pred_bins, nbins)
    IN  list([b \in 1..nbins |->
                 list([i \in 1..Len(keys[b]) |-> ValuesOfKey(true_errors, keys[b][i])[1]])])

----------------------------------------------------------------------------
(* FoldDataProcessor.extract_fold_data *)

FoldColumn == "Testing Fold"

Project(frame, columns) ==
    [i \in 1..Len(frame) |-> [c \in columns |-> frame[i][c]]]

\* the variant whose slices hold the rows of every fold
extract_fold_data_AllFolds(data_structs, fold_, utype) ==
    LET fold_filter == [i \in 1..Len(data_structs) |->
                            data_structs[i][FoldColumn] = fold_]
    IN  [errors |-> Project(data_structs, {"uid", "target_idx", ErrorColumn(utype)}),
         bins |-> Project(data_structs, {"uid", "target_idx", BinsColumn(utype)}),
         filter |-> fold_filter]

extract_fold_data(data_structs, fold_, utype) ==
    LET fold_filter == [i \in 1..Len(data_structs) |->
                            data_structs[i][FoldColumn] = fold_]
        selected == MaskRows(data_structs, fold_filter)
    IN  [errors |-> Project(selected, {"uid", "target_idx", ErrorColumn(utype)}),
         bins |-> Project(selected, {"uid", "target_idx", BinsColumn(utype)}),
         filter |-> fold_filter]

----------------------------------------------------------------------------
(* bin_wise_bound_eval *)

\* mutant of InBound: the lower end of bin 0 taken as closed
InBound_ZeroPasses(q, error, fold_bounds, nbins) ==
    IF q = 0 THEN error <= fold_bounds[1] /\ error >= 0
    ELSE IF q < nbins - 1 THEN error <= fold_bounds[q + 1] /\ error > fold_bounds[q]
    ELSE error > fold_bounds[q]

\* the membership test of one in-bin error, bin q of 0..nbins-1
InBound(q, error, fold_bounds, nbins) ==
    IF q = 0 THEN error <= fold_bounds[1] /\ error > 0
    ELSE IF q < nbins - 1 THEN error <= fold_bounds[q + 1] /\ error > fold_bounds[q]
    ELSE error > fold_bounds[q]

inner_bin_correct(q, inbin_errors, fold_bounds, nbins) ==
    Cardinality({i \in 1..Len(inbin_errors) :
                    InBound(q, inbin_errors[i], fold_bounds, nbins)})

accuracy_bin(correct, size) ==
    IF correct = 0 THEN Rat(0, 1)
    ELSE IF size = 0 THEN Rat(1, 1)
    ELSE Rat(correct, size)

\* the per-bin lists of one target: bins_acc and bins_sizes
BoundBinsOfTarget(fold_bounds, pred_bins, true_errors, nbins) ==
    LET errs == pred_bins_errors(pred_bins, true_errors, nbins)
    IN  [bins_acc |-> list([b \in 1..nbins |->
                          accuracy_bin(inner_bin_correct(b - 1, errs[b], fold_bounds, nbins),
                                       Len(errs[b]))]),
         bins_sizes |-> list([b \in 1..nbins |-> Len(errs[b])])]

\* sum of acc * size over two parallel lists
RECURSIVE WeightedSum(_, _)
WeightedSum(accs, sizes) ==
    IF accs = <<>> THEN Rat(0, 1)
    ELSE RAdd(RMul(Head(accs), Rat(Head(sizes), 1)),
              WeightedSum(Tail(accs), Tail(sizes)))
\* mutant of weighted_ave: the weighted sum, not divided by the weights
weighted_ave_Undivided(bins_acc, bins_sizes) == WeightedSum(bins_acc, bins_sizes)


\* weighted_mean_ti / total_weights; the caller has checked total_weights # 0
weighted_ave(bins_acc, bins_sizes) ==
    RDivInt(WeightedSum(bins_acc, bins_sizes), SumSeq(bins_sizes))

\* mutant of weighted_ave_bin: the plain mean over targets
weighted_ave_bin_Unweighted(bin_accs, bin_asizes) == np_mean(bin_accs)

weighted_ave_bin(bin_accs, bin_asizes) ==
    LET weighted_mean_bin == WeightedSum(bin_accs, bin_asizes)
        total_weights_bin == SumSeq(bin_asizes)
    IN  IF weighted_mean_bin = Rat(0, 1) \/ total_weights_bin = 0 THEN Rat(0, 1)
        ELSE RDivInt(weighted_mean_bin, total_weights_bin)

bin_wise_bound_eval(fold_bounds_all_targets, fold_errors, fold_bins, tgts, utype, nbins) ==
    LET nt == Len(tgts)
        te == list([i \in 1..nt |-> true_errors_ti(fold_errors, tgts[i], utype)])
        pb == list([i \in 1..nt |-> pred_bins_ti(fold_errors, fold_bins, tgts[i], utype)])
        \* a target whose lookup raises never gets its lists
        perTarget ==
            list([i \in 1..nt |->
                     IF i > Len(fold_bounds_all_targets) \/ LookupFails(pb[i], te[i], nbins)
                     THEN [bins_acc |-> <<>>, bins_sizes |-> <<>>]
                     ELSE BoundBinsOfTarget(fold_bounds_all_targets[i], pb[i], te[i],
                                            nbins)])
        \* the exception target i raises, "" if none
        exc(i) == IF i > Len(fold_bounds_all_targets) THEN "IndexError"
                  ELSE IF LookupFails(pb[i], te[i], nbins) THEN "IndexError"
                  ELSE IF SumSeq(perTarget[i].bins_sizes) = 0 THEN "ZeroDivisionError"
                  ELSE ""
        failing == {i \in 1..nt : exc(i) # ""}
        all_target_perc ==
            list([i \in 1..nt |->
                     weighted_ave(perTarget[i].bins_acc, perTarget[i].bins_sizes)])
        all_qs_perc ==
            list([b \in 1..nbins |-> list([i \in 1..nt |-> perTarget[i].bins_acc[b]])])
        all_qs_size ==
            list([b \in 1..nbins |-> list([i \in 1..nt |-> perTarget[i].bins_sizes[b]])])
        sep == list([i \in 1..nt |->
                        list([b \in 1..nbins |-> <<perTarget[i].bins_acc[b]>>])])
    IN  IF failing # {}
        THEN [raised |-> exc(CHOOSE i \in failing : \A j \in failing : i <= j)]
        ELSE [raised |-> "",
              result |->
                  [x \in {"mean all targets"} |-> np_mean(all_target_perc)] @@
                  [x \in {"mean all bins"} |->
                      [b \in 1..nbins |-> weighted_ave_bin(all_qs_perc[b], all_qs_size[b])]] @@
                  [x \in {"mean all"} |-> all_qs_perc] @@
                  [x \in {"all bins concatenated targets seperated"} |-> sep],
              locals |-> [all_target_perc |-> all_target_perc,
                          all_qs_size |-> all_qs_size]]

----------------------------------------------------------------------------
(* BoundEvaluationHandler *)

BoundsColumn(utype) == utype \o " Uncertainty bounds"
BoundsKey(model_) == model_ \o " Error Bounds"

\* kale.prepdata.string_transform.strip_for_bound: one threshold list per row
strip_for_bound(values) == [i \in 1..Len(values) |-> values[i]]

Bound_extract_fold_data(data_structs, fold_, utype) ==
    extract_fold_data(data_structs, fold_, utype) @@ [fold_num |-> fold_]

\* estimated_bounds = kwargs.get('estimated_bounds'); a dict without the
\* model's key raises KeyError at estimated_bounds[f"{model} Error Bounds"]
Bound_process_single_fold(fold_data_, utype, kw, model_, tgts, nbins) ==
    LET estimated_bounds ==
            IF "estimated_bounds" \in DOMAIN kw THEN kw.estimated_bounds ELSE None
    IN
    IF estimated_bounds = None \/ estimated_bounds = <<>> \/ model_ = ""
    THEN [raised |-> "ValueError"]
    ELSE IF BoundsKey(model_) \notin DOMAIN estimated_bounds
    THEN [raised |-> "KeyError"]
    ELSE LET table == estimated_bounds[BoundsKey(model_)]
             rows == MaskRows(table, [i \in 1..Len(table) |->
                                         table[i]["fold"] = fold_data_.fold_num])
             fold_bounds == strip_for_bound(
                                [i \in 1..Len(rows) |-> rows[i][BoundsColumn(utype)]])
         IN  bin_wise_bound_eval(fold_bounds, fold_data_.errors, fold_data_.bins,
                                 tgts, utype, nbins)

----------------------------------------------------------------------------
(* bin_wise_jaccard *)

\* sorted(values): ascending, by insertion
RECURSIVE sorted(_)
sorted(s) ==
    IF s = <<>> THEN <<>>
    ELSE LET rest == sorted(Tail(s))
             x == Head(s)
             before == Cardinality({i \in 1..Len(rest) : rest[i] < x})
         IN  SubSeq(rest, 1, before) \o <<x>> \o SubSeq(rest, before + 1, Len(rest))

DictValues(d) == list([i \in 1..Len(d) |-> d[i][2]])

\* np.quantile(sorted_errors, k / Q), linear interpolation between the two
\* neighbours of position (k / Q) * (n - 1); nan for an empty list where
\* numpy does not raise
np_quantile(sorted_errors, k, Q) ==
    LET n == Len(sorted_errors)
        lo == (k * (n - 1)) \div Q
        r == (k * (n - 1)) % Q
    IN  IF n = 0 THEN NaN
        ELSE IF r = 0 THEN Rat(sorted_errors[lo + 1], 1)
        ELSE Rat(sorted_errors[lo + 1] * Q
                    + r * (sorted_errors[lo + 2] - sorted_errors[lo + 1]), Q)

\* mutant of quantile_thresholds: the combined list keeps the first
\* threshold twice instead of the first and the last
quantile_thresholds_FirstOnly(true_errors, Q, combine) ==
    LET sorted_errors == sorted(DictValues(true_errors))
        all == list([k \in 1..(Q - 1) |-> np_quantile(sorted_errors, k, Q)])
    IN  IF combine THEN <<all[1], all[1]>> ELSE all

\* quantiles 1/Q .. (Q-1)/Q of the target's errors; first and last only
\* when the middle bins are combined
quantile_thresholds(true_errors, Q, combine) ==
    LET sorted_errors == sorted(DictValues(true_errors))
        all == list([k \in 1..(Q - 1) |-> np_quantile(sorted_errors, k, Q)])
    IN  IF combine THEN <<all[1], all[Len(all)]>> ELSE all

\* error <= upper and error > lower against a float threshold; every
\* comparison with nan is false
ErrLeq(error, t) == IsNum(t) /\ RLeq(Rat(error, 1), t)
ErrGt(error, t) == IsNum(t) /\ RLess(t, Rat(error, 1))

\* mutant of InQuantileGroup: the interior groups closed at the lower end
InQuantileGroup_ClosedBelow(q, error, thresholds) ==
    IF q = 0 THEN ErrLeq(error, thresholds[1])
    ELSE IF q < Len(thresholds)
         THEN ErrLeq(error, thresholds[q + 1])
                 /\ (ErrGt(error, thresholds[q]) \/ Rat(error, 1) = thresholds[q])
    ELSE ErrGt(error, thresholds[q])

\* the test that puts an error into group q of 0..len(quantile_thresholds)
InQuantileGroup(q, error, thresholds) ==
    IF q = 0 THEN ErrLeq(error, thresholds[1])
    ELSE IF q < Len(thresholds)
         THEN ErrLeq(error, thresholds[q + 1]) /\ ErrGt(error, thresholds[q])
    ELSE ErrGt(error, thresholds[q])

RECURSIVE KeysInGroup(_, _, _)
KeysInGroup(true_errors, q, thresholds) ==
    IF true_errors = <<>> THEN <<>>
    ELSE LET rest == KeysInGroup(Tail(true_errors), q, thresholds)
             item == Head(true_errors)
         IN  IF InQuantileGroup(q, item[2], thresholds) THEN <<item[1]>> \o rest
             ELSE rest

key_groups(true_errors, thresholds) ==
    list([g \in 1..(Len(thresholds) + 1) |-> KeysInGroup(true_errors, g - 1, thresholds)])

\* list[::-1]
Reversed(s) == list([i \in 1..Len(s) |-> s[Len(s) + 1 - i]])

\* mutant of flip_key_groups: the quantile groups left in the order built
flip_key_groups_Skipped(groups) == groups

\* mutant of flip_pred_bins_keys: the predicted groups left in B1..BN order
flip_pred_bins_keys_Skipped(keys) == keys

\* pred_bins_keys = pred_bins_keys[::-1]
flip_pred_bins_keys(keys) == Reversed(keys)

\* key_groups = key_groups[::-1]
flip_key_groups(groups) == Reversed(groups)

SeqToSet(s) == {s[i] : i \in 1..Len(s)}

\* kale.evaluate.similarity_metrics.jaccard_similarity: |A n B| / |A u B|,
\* and 0 when that is 0 / 0
jaccard_similarity(list1, list2) ==
    LET a == SeqToSet(list1)
        b == SeqToSet(list2)
    IN  IF a \cup b = {} THEN Rat(0, 1)
        ELSE Rat(Cardinality(a \cap b), Cardinality(a \cup b))

\* sum(el in gt_bins_keys for el in pred_b_keys)
CountIn(pred_b_keys, gt_bins_keys) ==
    Cardinality({i \in 1..Len(pred_b_keys) : pred_b_keys[i] \in SeqToSet(gt_bins_keys)})

\* mutant of recall_precision: an empty ground-truth group scored like an
\* empty predicted group
recall_precision_EmptyGtZero(pred_b_keys, gt_bins_keys) ==
    IF Len(gt_bins_keys) = 0 THEN [recall |-> Rat(0, 1), precision |-> Rat(0, 1)]
    ELSE [recall |-> Rat(CountIn(pred_b_keys, gt_bins_keys), Len(gt_bins_keys)),
          precision |->
              IF Len(pred_b_keys) = 0 /\ Len(gt_bins_keys) > 0 THEN Rat(0, 1)
              ELSE Rat(CountIn(pred_b_keys, gt_bins_keys), Len(pred_b_keys))]

\* the variant that divides both counts by the size of the ground-truth group
recall_precision_SameDenominator(pred_b_keys, gt_bins_keys) ==
    IF Len(gt_bins_keys) = 0 THEN [recall |-> Rat(1, 1), precision |-> Rat(0, 1)]
    ELSE [recall |-> Rat(CountIn(pred_b_keys, gt_bins_keys), Len(gt_bins_keys)),
          precision |->
              IF Len(pred_b_keys) = 0 /\ Len(gt_bins_keys) > 0 THEN Rat(0, 1)
              ELSE Rat(CountIn(pred_b_keys, gt_bins_keys), Len(gt_bins_keys))]

recall_precision(pred_b_keys, gt_bins_keys) ==
    IF Len(gt_bins_keys) = 0 THEN [recall |-> Rat(1, 1), precision |-> Rat(0, 1)]
    ELSE [recall |-> Rat(CountIn(pred_b_keys, gt_bins_keys), Len(gt_bins_keys)),
          precision |->
              IF Len(pred_b_keys) = 0 /\ Len(gt_bins_keys) > 0 THEN Rat(0, 1)
              ELSE Rat(CountIn(pred_b_keys, gt_bins_keys), Len(pred_b_keys))]

\* the per-target part of the loop: groups, flips and the per-bin scores
JaccardOfTarget(pred_bins, true_errors, nbins, Q, combine) ==
    LET thresholds == quantile_thresholds(true_errors, Q, combine)
        built == key_groups(true_errors, thresholds)
        pred == flip_pred_bins_keys(pred_bins_keys(pred_bins, nbins))
        gt == flip_key_groups(built)
        rp == list([b \in 1..nbins |-> recall_precision(pred[b], gt[b])])
    IN  [quantile_thresholds |-> thresholds,
         key_groups_built |-> built,
         pred_bins_keys |-> pred,
         key_groups |-> gt,
         jaccard |-> list([b \in 1..nbins |-> jaccard_similarity(pred[b], gt[b])]),
         recall |-> list([b \in 1..nbins |-> rp[b].recall]),
         precision |-> list([b \in 1..nbins |-> rp[b].precision])]

\* empty_quantile is what np.quantile does with an empty list in the numpy
\* at hand: "nan" (a warning) or "IndexError"
bin_wise_jaccard(fold_errors, fold_bins, nbins, Q, tgts, utype, combine, empty_quantile) ==
    LET nt == Len(tgts)
        te == list([i \in 1..nt |-> true_errors_ti(fold_errors, tgts[i], utype)])
        pb == list([i \in 1..nt |-> pred_bins_ti(fold_errors, fold_bins, tgts[i], utype)])
        exc(i) == IF LookupFails(pb[i], te[i], nbins) THEN "IndexError"
                  ELSE IF te[i] = <<>> /\ empty_quantile = "IndexError" THEN "IndexError"
                  ELSE ""
        failing == {i \in 1..nt : exc(i) # ""}
        perTarget == list([i \in 1..nt |-> JaccardOfTarget(pb[i], te[i], nbins, Q, combine)])
        all_qs_jacc ==
            list([b \in 1..nbins |-> list([i \in 1..nt |-> perTarget[i].jaccard[b]])])
        all_qs_recall ==
            list([b \in 1..nbins |-> list([i \in 1..nt |-> perTarget[i].recall[b]])])
        all_qs_precision ==
            list([b \in 1..nbins |-> list([i \in 1..nt |-> perTarget[i].precision[b]])])
    IN  IF failing # {}
        THEN [raised |-> exc(CHOOSE i \in failing : \A j \in failing : i <= j)]
        ELSE [raised |-> "",
              result |->
                  [x \in {"mean all targets"} |->
                      np_mean([i \in 1..nt |-> np_mean(perTarget[i].jaccard)])] @@
                  [x \in {"mean all bins"} |-> [b \in 1..nbins |-> np_mean(all_qs_jacc[b])]] @@
                  [x \in {"all bins"} |-> all_qs_jacc] @@
                  [x \in {"mean all targets recall"} |->
                      np_mean([i \in 1..nt |-> np_mean(perTarget[i].recall)])] @@
                  [x \in {"mean all bins recall"} |->
                      [b \in 1..nbins |-> np_mean(all_qs_recall[b])]] @@
                  [x \in {"all bins recall"} |-> all_qs_recall] @@
                  [x \in {"mean all targets precision"} |->
                      np_mean([i \in 1..nt |-> np_mean(perTarget[i].precision)])] @@
                  [x \in {"mean all bins precision"} |->
                      [b \in 1..nbins |-> np_mean(all_qs_precision[b])]] @@
                  [x \in {"all bins precision"} |-> all_qs_precision] @@
                  [x \in {"all bins concatenated targets seperated"} |->
                      [i \in 1..nt |-> [b \in 1..nbins |-> <<perTarget[i].jaccard[b]>>]]],
              locals |-> [i \in 1..nt |->
                             [quantile_thresholds |-> perTarget[i].quantile_thresholds,
                              key_groups_built |-> perTarget[i].key_groups_built,
                              pred_bins_keys |-> perTarget[i].pred_bins_keys,
                              key_groups |-> perTarget[i].key_groups]]]

----------------------------------------------------------------------------
(* JaccardEvaluationHandler *)

CombinedBins == 3

Jaccard_process_single_fold(fold_data_, utype, tgts, nbins, original, combine, empty_quantile) ==
    LET num_bins_for_quantiles == IF combine THEN original ELSE nbins
        num_bins_ == IF combine THEN CombinedBins ELSE nbins
    IN  bin_wise_jaccard(fold_data_.errors, fold_data_.bins, num_bins_,
                         num_bins_for_quantiles, tgts, utype, combine, empty_quantile)

\* model + " " + uncertainty_type
ResultKey(model_, utype) == model_ \o " " \o utype

Jaccard_initialize_results(tgts) ==
    [x \in {"all_jaccard_data", "all_jaccard_bins_targets_sep", "all_recall_data",
             "all_recall_bins_targets_sep", "all_precision_data",
             "all_precision__bins_targets_sep"} |-> <<>>] @@
    [x \in {"all_concat_jacc_bins_target_sep_foldwise",
             "all_concat_jacc_bins_target_sep_all"} |->
        list([i \in 1..Len(tgts) |-> <<>>])]

Jaccard_initialize_fold_accumulator(nbins, tgts) ==
    [x \in {"fold_mean_targets", "fold_mean_targets_recall",
             "fold_mean_targets_precision"} |-> <<>>] @@
    [x \in {"fold_mean_bins", "fold_all_bins", "fold_mean_bins_recall",
             "fold_all_bins_recall", "fold_mean_bins_precision",
             "fold_all_bins_precision"} |-> list([b \in 1..nbins |-> <<>>])] @@
    [x \in {"fold_all_bins_concat_targets_sep_foldwise",
             "fold_all_bins_concat_targets_sep_all"} |->
        list([i \in 1..Len(tgts) |-> list([b \in 1..nbins |-> <<>>])])]

\* lists[idx_bin].append(values[idx_bin]) for idx_bin in range(n)
AppendPerBin(lists, values, n) ==
    list([b \in 1..Len(lists) |->
             IF b <= n THEN Append(lists[b], values[b]) ELSE lists[b]])

\* the variant that puts the fold's values in front of those gathered so far
ConcatPerBin_Prepended(lists, values, n) ==
    list([b \in 1..Len(lists) |->
             IF b <= n THEN values[b] \o lists[b] ELSE lists[b]])

\* lists[idx_bin] = lists[idx_bin] + values[idx_bin] for idx_bin in range(n)
ConcatPerBin(lists, values, n) ==
    list([b \in 1..Len(lists) |->
             IF b <= n THEN lists[b] \o values[b] ELSE lists[b]])
\* mutant of Jaccard_accumulate_fold_result: the "sep all" list of a target
\* gathers the fold's values of every target
Jaccard_accumulate_fold_result_AllPooled(acc, fr, tgts) ==
    LET n == Len(fr["mean all bins"])
        sep(name) ==
            list([t \in 1..Len(acc[name]) |->
                     IF t <= Len(tgts)
                     THEN ConcatPerBin(acc[name][t],
                              fr["all bins concatenated targets seperated"][t], n)
                     ELSE acc[name][t]])
    IN  [x \in {"fold_mean_targets"} |->
            Append(acc["fold_mean_targets"], fr["mean all targets"])] @@
        [x \in {"fold_mean_targets_recall"} |->
            Append(acc["fold_mean_targets_recall"], fr["mean all targets recall"])] @@
        [x \in {"fold_mean_targets_precision"} |->
            Append(acc["fold_mean_targets_precision"],
                   fr["mean all targets precision"])] @@
        [x \in {"fold_mean_bins"} |->
            AppendPerBin(acc["fold_mean_bins"], fr["mean all bins"], n)] @@
        [x \in {"fold_all_bins"} |->
            ConcatPerBin(acc["fold_all_bins"], fr["all bins"], n)] @@
        [x \in {"fold_mean_bins_recall"} |->
            AppendPerBin(acc["fold_mean_bins_recall"], fr["mean all bins recall"], n)] @@
        [x \in {"fold_all_bins_recall"} |->
            ConcatPerBin(acc["fold_all_bins_recall"], fr["all bins recall"], n)] @@
        [x \in {"fold_mean_bins_precision"} |->
            AppendPerBin(acc["fold_mean_bins_precision"],
                         fr["mean all bins precision"], n)] @@
        [x \in {"fold_all_bins_precision"} |->
            ConcatPerBin(acc["fold_all_bins_precision"], fr["all bins precision"], n)] @@
        [x \in {"fold_all_bins_concat_targets_sep_foldwise"} |->
            sep("fold_all_bins_concat_targets_sep_foldwise")] @@
        [x \in {"fold_all_bins_concat_targets_sep_all"} |->
            list([t \in 1..Len(tgts) |->
                     ConcatPerBin(acc["fold_all_bins_concat_targets_sep_all"][t],
                         [b \in 1..n |->
                             fr["all bins concatenated targets seperated"][1][b]
                                 \o fr["all bins concatenated targets seperated"][Len(tgts)][b]],
                         n)])]


Jaccard_accumulate_fold_result(acc, fr, tgts) ==
    LET n == Len(fr["mean all bins"])
        sep(name) ==
            list([t \in 1..Len(acc[name]) |->
                     IF t <= Len(tgts)
                     THEN ConcatPerBin(acc[name][t],
                              fr["all bins concatenated targets seperated"][t], n)
                     ELSE acc[name][t]])
    IN  [x \in {"fold_mean_targets"} |->
            Append(acc["fold_mean_targets"], fr["mean all targets"])] @@
        [x \in {"fold_mean_targets_recall"} |->
            Append(acc["fold_mean_targets_recall"], fr["mean all targets recall"])] @@
        [x \in {"fold_mean_targets_precision"} |->
            Append(acc["fold_mean_targets_precision"],
                   fr["mean all targets precision"])] @@
        [x \in {"fold_mean_bins"} |->
            AppendPerBin(acc["fold_mean_bins"], fr["mean all bins"], n)] @@
        [x \in {"fold_all_bins"} |->
            ConcatPerBin(acc["fold_all_bins"], fr["all bins"], n)] @@
        [x \in {"fold_mean_bins_recall"} |->
            AppendPerBin(acc["fold_mean_bins_recall"], fr["mean all bins recall"], n)] @@
        [x \in {"fold_all_bins_recall"} |->
            ConcatPerBin(acc["fold_all_bins_recall"], fr["all bins recall"], n)] @@
        [x \in {"fold_mean_bins_precision"} |->
            AppendPerBin(acc["fold_mean_bins_precision"],
                         fr["mean all bins precision"], n)] @@
        [x \in {"fold_all_bins_precision"} |->
            ConcatPerBin(acc["fold_all_bins_precision"], fr["all bins precision"], n)] @@
        [x \in {"fold_all_bins_concat_targets_sep_foldwise"} |->
            sep("fold_all_bins_concat_targets_sep_foldwise")] @@
        [x \in {"fold_all_bins_concat_targets_sep_all"} |->
            sep("fold_all_bins_concat_targets_sep_all")]

Jaccard_aggregate_results(res, model_, utype, fold_results) ==
    LET key == ResultKey(model_, utype)
        put(name, from) == DictPut(res[name], key, fold_results[from])
        putsep(name, from) ==
            list([t \in 1..Len(res[name]) |->
                     DictPut(res[name][t], key, fold_results[from][t])])
    IN  [x \in {"all_jaccard_data"} |-> put(x, "fold_mean_bins")] @@
        [x \in {"all_jaccard_bins_targets_sep"} |-> put(x, "fold_all_bins")] @@
        [x \in {"all_recall_data"} |-> put(x, "fold_mean_bins_recall")] @@
        [x \in {"all_recall_bins_targets_sep"} |-> put(x, "fold_all_bins_recall")] @@
        [x \in {"all_precision_data"} |-> put(x, "fold_mean_bins_precision")] @@
        [x \in {"all_precision__bins_targets_sep"} |->
            put(x, "fold_all_bins_precision")] @@
        [x \in {"all_concat_jacc_bins_target_sep_foldwise"} |->
            putsep(x, "fold_all_bins_concat_targets_sep_foldwise")] @@
        [x \in {"all_concat_jacc_bins_target_sep_all"} |->
            putsep(x, "fold_all_bins_concat_targets_sep_all")]

Jaccard_finalize_results(res) ==
    [x \in {"Jaccard All"} |-> res["all_jaccard_data"]] @@
    [x \in {"Jaccard targets seperated"} |-> res["all_jaccard_bins_targets_sep"]] @@
    [x \in {"Recall All"} |-> res["all_recall_data"]] @@
    [x \in {"Recall targets seperated"} |-> res["all_recall_bins_targets_sep"]] @@
    [x \in {"Precision All"} |-> res["all_precision_data"]] @@
    [x \in {"Precision targets seperated"} |->
        res["all_precision__bins_targets_sep"]] @@
    [x \in {"all jacc concat bins targets sep foldwise"} |->
        res["all_concat_jacc_bins_target_sep_foldwise"]] @@
    [x \in {"all jacc concat bins targets sep all"} |->
        res["all_concat_jacc_bins_target_sep_all"]]

----------------------------------------------------------------------------
(* bin_wise_errors *)

\* mutant of scaled_errors: the factor left out
scaled_errors_Unscaled(true_errors, error_scaling_factor) ==
    list([i \in 1..Len(true_errors) |->
             <<true_errors[i][1], Rat(true_errors[i][2], 1)>>])

\* the error column times error_scaling_factor, zipped with the uids
scaled_errors(true_errors, error_scaling_factor) ==
    list([i \in 1..Len(true_errors) |->
             <<true_errors[i][1], RMul(Rat(true_errors[i][2], 1), error_scaling_factor)>>])

\* the variant that keeps every position and counts a skipped one as 0
Kept_ZeroFilled(values, keep) ==
    list([i \in 1..Len(values) |-> IF keep[i] THEN values[i] ELSE Rat(0, 1)])

\* the values of a list at the positions that are kept, in order
RECURSIVE Kept(_, _)
Kept(values, keep) ==
    IF values = <<>> THEN <<>>
    ELSE IF Head(keep) THEN <<Head(values)>> \o Kept(Tail(values), Tail(keep))
    ELSE Kept(Tail(values), Tail(keep))

\* the per-target part of the loop: an empty bin is skipped
ErrorsOfTarget(pred_bins, true_errors, nbins) ==
    LET errs == pred_bins_errors(pred_bins, true_errors, nbins)
        filled == list([b \in 1..nbins |-> errs[b] # <<>>])
        means == list([b \in 1..nbins |-> np_mean(errs[b])])
    IN  [pred_bins_errors |-> errs,
         filled |-> filled,
         means |-> means,
         inner_errors |-> Kept(means, filled)]

bin_wise_errors(fold_errors, fold_bins, nbins, tgts, utype, error_scaling_factor) ==
    LET nt == Len(tgts)
        te == list([i \in 1..nt |->
                       scaled_errors(true_errors_ti(fold_errors, tgts[i], utype),
                                     error_scaling_factor)])
        pb == list([i \in 1..nt |-> pred_bins_ti(fold_errors, fold_bins, tgts[i], utype)])
        failing == {i \in 1..nt : LookupFails(pb[i], te[i], nbins)}
        perTarget == list([i \in 1..nt |-> ErrorsOfTarget(pb[i], te[i], nbins)])
        all_target_error == list([i \in 1..nt |-> np_mean(perTarget[i].inner_errors)])
        all_qs_error ==
            list([b \in 1..nbins |->
                     Kept(list([i \in 1..nt |-> perTarget[i].means[b]]),
                          list([i \in 1..nt |-> perTarget[i].filled[b]]))])
    IN  IF failing # {} THEN [raised |-> "IndexError"]
        ELSE [raised |-> "",
              result |->
                  [x \in {"mean all targets"} |-> np_mean(all_target_error)] @@
                  [x \in {"mean all bins"} |->
                      list([b \in 1..nbins |->
                               IF all_qs_error[b] = <<>> THEN None
                               ELSE np_mean(all_qs_error[b])])] @@
                  [x \in {"all bins"} |-> all_qs_error] @@
                  [x \in {"all bins concatenated targets seperated"} |->
                      list([i \in 1..nt |->
                               list([b \in 1..nbins |->
                                        IF perTarget[i].filled[b]
                                        THEN <<perTarget[i].pred_bins_errors[b]>>
                                        ELSE <<>>])])],
              locals |-> [all_target_error |-> all_target_error]]

----------------------------------------------------------------------------
(* ErrorEvaluationHandler *)

\* kwargs.get('error_scaling_factor', 1.0)
Error_process_single_fold(fold_data_, utype, kw, tgts, nbins) ==
    LET error_scaling_factor ==
            IF "error_scaling_factor" \in DOMAIN kw THEN kw.error_scaling_factor
            ELSE Rat(1, 1)
    IN  bin_wise_errors(fold_data_.errors, fold_data_.bins, nbins, tgts, utype,
                        error_scaling_factor)

Error_initialize_results(tgts) ==
    [x \in {"all_mean_error_bins", "all_mean_error_bins_targets_sep",
             "all_concat_error_bins_target_nosep"} |-> <<>>] @@
    [x \in {"all_concat_error_bins_target_sep_foldwise",
             "all_concat_error_bins_target_sep_all"} |->
        list([i \in 1..Len(tgts) |-> <<>>])]

Error_initialize_fold_accumulator(nbins, tgts) ==
    [x \in {"fold_mean_targets"} |-> <<>>] @@
    [x \in {"fold_mean_bins", "fold_all_bins", "fold_all_bins_concat_targets_nosep"} |->
        list([b \in 1..nbins |-> <<>>])] @@
    [x \in {"fold_all_bins_concat_targets_sep_foldwise",
             "fold_all_bins_concat_targets_sep_all"} |->
        list([i \in 1..Len(tgts) |-> list([b \in 1..nbins |-> <<>>])])]

\* [x for sublist in lists for x in sublist]
RECURSIVE Flatten(_)
Flatten(lists) == IF lists = <<>> THEN <<>> ELSE Head(lists) \o Flatten(Tail(lists))

Error_accumulate_fold_result(acc, fr, tgts) ==
    LET n == Len(fr["mean all bins"])
        sep == fr["all bins concatenated targets seperated"]
        \* every error of bin idx_bin, the targets one after the other
        flattened_concat_no_sep ==
            list([b \in 1..n |-> Flatten(Flatten(list([t \in 1..Len(sep) |-> sep[t][b]])))])
        \* the fold's list of a bin as one element; nothing for an empty bin
        foldwise(name) ==
            list([t \in 1..Len(acc[name]) |->
                     IF t <= Len(tgts) THEN ConcatPerBin(acc[name][t], sep[t], n)
                     ELSE acc[name][t]])
        \* the fold's errors of a bin, one by one; nothing for an empty bin
        all(name) ==
            list([t \in 1..Len(acc[name]) |->
                     IF t <= Len(tgts)
                     THEN ConcatPerBin(acc[name][t],
                              list([b \in 1..n |->
                                       IF sep[t][b] # <<>> THEN sep[t][b][1] ELSE <<>>]),
                              n)
                     ELSE acc[name][t]])
    IN  [x \in {"fold_mean_targets"} |->
            Append(acc["fold_mean_targets"], fr["mean all targets"])] @@
        [x \in {"fold_mean_bins"} |->
            AppendPerBin(acc["fold_mean_bins"], fr["mean all bins"], n)] @@
        [x \in {"fold_all_bins"} |->
            ConcatPerBin(acc["fold_all_bins"], fr["all bins"], n)] @@
        [x \in {"fold_all_bins_concat_targets_nosep"} |->
            ConcatPerBin(acc["fold_all_bins_concat_targets_nosep"],
                         flattened_concat_no_sep, n)] @@
        [x \in {"fold_all_bins_concat_targets_sep_foldwise"} |->
            foldwise("fold_all_bins_concat_targets_sep_foldwise")] @@
        [x \in {"fold_all_bins_concat_targets_sep_all"} |->
            all("fold_all_bins_concat_targets_sep_all")]

\* the variant that leaves every list in raw bin order
ReversedEach_Skipped(lists) == lists

\* [x[::-1] for x in lists]
ReversedEach(lists) == list([t \in 1..Len(lists) |-> Reversed(lists[t])])

Error_aggregate_results(res, model_, utype, fold_results) ==
    LET key == ResultKey(model_, utype)
        fold_mean_bins == Reversed(fold_results["fold_mean_bins"])
        fold_all_bins == Reversed(fold_results["fold_all_bins"])
        fold_all_bins_concat_targets_nosep ==
            Reversed(fold_results["fold_all_bins_concat_targets_nosep"])
        fold_all_bins_concat_targets_sep_foldwise ==
            ReversedEach(fold_results["fold_all_bins_concat_targets_sep_foldwise"])
        fold_all_bins_concat_targets_sep_all ==
            ReversedEach(fold_results["fold_all_bins_concat_targets_sep_all"])
        putsep(name, lists) ==
            list([t \in 1..Len(res[name]) |->
                     IF t <= Len(lists) THEN DictPut(res[name][t], key, lists[t])
                     ELSE res[name][t]])
    IN  [x \in {"all_mean_error_bins"} |-> DictPut(res[x], key, fold_mean_bins)] @@
        [x \in {"all_mean_error_bins_targets_sep"} |->
            DictPut(res[x], key, fold_all_bins)] @@
        [x \in {"all_concat_error_bins_target_nosep"} |->
            DictPut(res[x], key, fold_all_bins_concat_targets_nosep)] @@
        [x \in {"all_concat_error_bins_target_sep_foldwise"} |->
            putsep(x, fold_all_bins_concat_targets_sep_foldwise)] @@
        [x \in {"all_concat_error_bins_target_sep_all"} |->
            putsep(x, fold_all_bins_concat_targets_sep_all)]

Error_finalize_results(res) ==
    [x \in {"all mean error bins nosep"} |-> res["all_mean_error_bins"]] @@
    [x \in {"all mean error bins targets sep"} |->
        res["all_mean_error_bins_targets_sep"]] @@
    [x \in {"all error concat bins targets nosep"} |->
        res["all_concat_error_bins_target_nosep"]] @@
    [x \in {"all error concat bins targets sep foldwise"} |->
        res["all_concat_error_bins_target_sep_foldwise"]] @@
    [x \in {"all error concat bins targets sep all"} |->
        res["all_concat_error_bins_target_sep_all"]]

----------------------------------------------------------------------------
(* BoundEvaluationHandler: the methods around the scorer *)

Bound_initialize_results(tgts) ==
    [x \in {"all_bound_percents", "all_bound_percents_notargetsep"} |-> <<>>] @@
    [x \in {"all_concat_errorbound_bins_target_sep_foldwise",
             "all_concat_errorbound_bins_target_sep_all"} |->
        list([i \in 1..Len(tgts) |-> <<>>])]

Bound_initialize_fold_accumulator(nbins, tgts) ==
    [x \in {"fold_learned_bounds_mean_targets"} |-> <<>>] @@
    [x \in {"fold_learned_bounds_mean_bins",
             "fold_learned_bounds_bins_targetsnotsep"} |->
        list([b \in 1..nbins |-> <<>>])] @@
    [x \in {"fold_all_bins_concat_targets_sep_foldwise",
             "fold_all_bins_concat_targets_sep_all"} |->
        list([i \in 1..Len(tgts) |-> list([b \in 1..nbins |-> <<>>])])]

Bound_accumulate_fold_result(acc, fr, tgts) ==
    LET n == Len(fr["mean all bins"])
        sep(name) ==
            list([t \in 1..Len(acc[name]) |->
                     IF t <= Len(tgts)
                     THEN ConcatPerBin(acc[name][t],
                              fr["all bins concatenated targets seperated"][t], n)
                     ELSE acc[name][t]])
    IN  [x \in {"fold_learned_bounds_mean_targets"} |->
            Append(acc["fold_learned_bounds_mean_targets"], fr["mean all targets"])] @@
        [x \in {"fold_learned_bounds_mean_bins"} |->
            AppendPerBin(acc["fold_learned_bounds_mean_bins"], fr["mean all bins"], n)] @@
        [x \in {"fold_learned_bounds_bins_targetsnotsep"} |->
            ConcatPerBin(acc["fold_learned_bounds_bins_targetsnotsep"],
                         fr["mean all"], n)] @@
        [x \in {"fold_all_bins_concat_targets_sep_foldwise"} |->
            sep("fold_all_bins_concat_targets_sep_foldwise")] @@
        [x \in {"fold_all_bins_concat_targets_sep_all"} |->
            sep("fold_all_bins_concat_targets_sep_all")]

Bound_aggregate_results(res, model_, utype, fold_results) ==
    LET key == ResultKey(model_, utype)
        putsep(name, from) ==
            list([t \in 1..Len(res[name]) |->
                     DictPut(res[name][t], key, fold_results[from][t])])
    IN  [x \in {"all_bound_percents"} |->
            DictPut(res[x], key, Reversed(fold_results["fold_learned_bounds_mean_bins"]))] @@
        [x \in {"all_bound_percents_notargetsep"} |->
            DictPut(res[x], key,
                    Reversed(fold_results["fold_learned_bounds_bins_targetsnotsep"]))] @@
        [x \in {"all_concat_errorbound_bins_target_sep_foldwise"} |->
            putsep(x, "fold_all_bins_concat_targets_sep_foldwise")] @@
        [x \in {"all_concat_errorbound_bins_target_sep_all"} |->
            putsep(x, "fold_all_bins_concat_targets_sep_all")]

Bound_finalize_results(res) ==
    [x \in {"Error Bounds All"} |-> res["all_bound_percents"]] @@
    [x \in {"all_bound_percents_notargetsep"} |->
        res["all_bound_percents_notargetsep"]] @@
    [x \in {"all errorbound concat bins targets sep foldwise"} |->
        res["all_concat_errorbound_bins_target_sep_foldwise"]] @@
    [x \in {"all errorbound concat bins targets sep all"} |->
        res["all_concat_errorbound_bins_target_sep_all"]]

----------------------------------------------------------------------------
(* BaseUncertaintyEvaluator: the steps of evaluate() *)

\* What np.quantile may do in bin_wise_jaccard: it only matters when some
\* target has no row in the fold, and then it depends on the numpy at hand.
EmptyQuantileChoices ==
    IF handler = "jaccard" /\ \E i \in 1..Len(targets) :
           \A r \in 1..Len(fold_data.errors) :
               fold_data.errors[r]["target_idx"] # targets[i]
    THEN {"nan", "IndexError"}
    ELSE {"nan"}

process_single_fold(empty_quantile) ==
    CASE handler = "bound" ->
            Bound_process_single_fold(fold_data, uncertainty_type, kwargs, model,
                                      targets, num_bins)
      [] handler = "jaccard" ->
            Jaccard_process_single_fold(fold_data, uncertainty_type, targets, num_bins,
                                        original_num_bins, combine_middle_bins,
                                        empty_quantile)
      [] handler = "error" ->
            Error_process_single_fold(fold_data, uncertainty_type, kwargs, targets,
                                      num_bins)

\* fold_result = self._process_single_fold(fold_data, uncertainty_type, **kwargs)
ProcessSingleFold ==
    /\ pc = "process_single_fold"
    /\ \E empty_quantile \in EmptyQuantileChoices :
       LET out == process_single_fold(empty_quantile)
       IN  IF out.raised # ""
           THEN /\ raised' = out.raised
                /\ pc' = "raised"
                /\ UNCHANGED <<fold_result, scorer_locals>>
           ELSE /\ fold_result' = out.result
                /\ scorer_locals' = out.locals
                /\ pc' = "accumulate_fold_result"
                /\ UNCHANGED raised
    /\ UNCHANGED <<call, binning, allocated, model, uncertainty_type, fold, fold_data, remaining,
                   fold_accumulator, results, returned>>

\* the variant in which the result dicts are created by the first call and
\* filled again by every later one
InitializeResults_Reused ==
    /\ pc = "evaluate"
    /\ results' = (IF results # <<>> THEN results
                   ELSE CASE handler = "jaccard" -> Jaccard_initialize_results(targets)
                          [] handler = "error" -> Error_initialize_results(targets)
                          [] handler = "bound" -> Bound_initialize_results(targets))
    /\ allocated' = (IF results # <<>> THEN allocated ELSE allocated + 1)
    /\ pc' = "next_pair"
    /\ UNCHANGED <<call, binning, model, uncertainty_type, fold, fold_data, fold_result,
                   scorer_locals, raised, remaining, fold_accumulator, returned>>

\* results = self._initialize_results()
InitializeResults ==
    /\ pc = "evaluate"
    /\ results' = (CASE handler = "jaccard" -> Jaccard_initialize_results(targets)
                      [] handler = "error" -> Error_initialize_results(targets)
                      [] handler = "bound" -> Bound_initialize_results(targets))
    /\ allocated' = allocated + 1
    /\ pc' = "next_pair"
    /\ UNCHANGED <<call, binning, model, uncertainty_type, fold, fold_data, fold_result,
                   scorer_locals, raised, remaining, fold_accumulator, returned>>

\* the variant in which the accumulator is created once and then carried
\* from one (model, pair) to the next
NextPair_AccumulatorKept ==
    /\ pc = "next_pair"
    /\ remaining # <<>>
    /\ model' = Head(remaining)[1]
    /\ uncertainty_type' = Head(remaining)[2]
    /\ remaining' = Tail(remaining)
    /\ fold_accumulator' =
          (IF fold_accumulator # <<>> THEN fold_accumulator
           ELSE CASE handler = "jaccard" ->
                       Jaccard_initialize_fold_accumulator(num_bins, targets)
                  [] handler = "error" ->
                       Error_initialize_fold_accumulator(num_bins, targets)
                  [] handler = "bound" ->
                       Bound_initialize_fold_accumulator(num_bins, targets))
    /\ fold' = 0
    /\ pc' = "next_fold"
    /\ UNCHANGED <<call, binning, allocated, fold_data, fold_result, scorer_locals, raised, results,
                   returned>>

\* the two for loops of evaluate() take their next (model, uncert_pair); then
\* fold_accumulator = self._initialize_fold_accumulator()
NextPair ==
    /\ pc = "next_pair"
    /\ remaining # <<>>
    /\ model' = Head(remaining)[1]
    /\ uncertainty_type' = Head(remaining)[2]
    /\ remaining' = Tail(remaining)
    /\ fold_accumulator' =
          (CASE handler = "jaccard" ->
                   Jaccard_initialize_fold_accumulator(num_bins, targets)
             [] handler = "error" ->
                   Error_initialize_fold_accumulator(num_bins, targets)
             [] handler = "bound" ->
                   Bound_initialize_fold_accumulator(num_bins, targets))
    /\ fold' = 0
    /\ pc' = "next_fold"
    /\ UNCHANGED <<call, binning, allocated, fold_data, fold_result, scorer_locals, raised, results,
                   returned>>

\* for fold in range(self.num_folds): fold_data = self._extract_fold_data(...)
ExtractFoldData ==
    /\ pc = "next_fold"
    /\ fold < num_folds
    /\ fold_data' =
          (IF handler = "bound"
           THEN Bound_extract_fold_data(bin_predictions[model], fold, uncertainty_type)
           ELSE extract_fold_data(bin_predictions[model], fold, uncertainty_type))
    /\ pc' = "process_single_fold"
    /\ UNCHANGED <<call, binning, allocated, model, uncertainty_type, fold, fold_result, scorer_locals,
                   raised, remaining, fold_accumulator, results, returned>>

\* self._accumulate_fold_result(fold_accumulator, fold_result)
AccumulateFoldResult ==
    /\ pc = "accumulate_fold_result"
    /\ fold_accumulator' =
          (CASE handler = "jaccard" ->
                   Jaccard_accumulate_fold_result(fold_accumulator, fold_result, targets)
             [] handler = "error" ->
                   Error_accumulate_fold_result(fold_accumulator, fold_result, targets)
             [] handler = "bound" ->
                   Bound_accumulate_fold_result(fold_accumulator, fold_result, targets))
    /\ fold' = fold + 1
    /\ pc' = "next_fold"
    /\ UNCHANGED <<call, binning, allocated, model, uncertainty_type, fold_data, fold_result,
                   scorer_locals, raised, remaining, results, returned>>

\* the fold loop is over: self._aggregate_results(results, model, ...)
AggregateResults ==
    /\ pc = "next_fold"
    /\ fold >= num_folds
    /\ results' =
          (CASE handler = "jaccard" ->
                   Jaccard_aggregate_results(results, model, uncertainty_type,
                                             fold_accumulator)
             [] handler = "error" ->
                   Error_aggregate_results(results, model, uncertainty_type,
                                           fold_accumulator)
             [] handler = "bound" ->
                   Bound_aggregate_results(results, model, uncertainty_type,
                                           fold_accumulator))
    /\ pc' = "next_pair"
    /\ UNCHANGED <<call, binning, allocated, model, uncertainty_type, fold, fold_data, fold_result,
                   scorer_locals, raised, remaining, fold_accumulator, returned>>

\* both loops are over: return self._finalize_results(results)
FinalizeResults ==
    /\ pc = "next_pair"
    /\ remaining = <<>>
    /\ returned' = (CASE handler = "jaccard" -> Jaccard_finalize_results(results)
                       [] handler = "error" -> Error_finalize_results(results)
                       [] handler = "bound" -> Bound_finalize_results(results))
    /\ pc' = "done"
    /\ UNCHANGED <<call, binning, allocated, model, uncertainty_type, fold, fold_data, fold_result,
                   scorer_locals, raised, remaining, fold_accumulator, results>>

Next ==
    \/ InitializeResults
    \/ NextPair
    \/ ExtractFoldData
    \/ ProcessSingleFold
    \/ AccumulateFoldResult
    \/ AggregateResults
    \/ FinalizeResults

----------------------------------------------------------------------------
(* sklearn's IsotonicRegression(out_of_bounds="clip", increasing=True) *)

\* the values of a set, ascending
RECURSIVE Ascending(_)
Ascending(S) ==
    IF S = {} THEN <<>>
    ELSE LET least == CHOOSE x \in S : \A y \in S : x <= y
         IN  <<least>> \o Ascending(S \ {least})

\* pool adjacent violators: two neighbouring blocks whose means decrease are
\* merged until the block means increase
RECURSIVE PoolAdjacentViolators(_)
PoolAdjacentViolators(blocks) ==
    LET violators == {i \in 1..(Len(blocks) - 1) :
                         blocks[i].sum * blocks[i + 1].w > blocks[i + 1].sum * blocks[i].w}
    IN  IF violators = {} THEN blocks
        ELSE LET i == CHOOSE i \in violators : \A j \in violators : i <= j
                 merged == [sum |-> blocks[i].sum + blocks[i + 1].sum,
                            w |-> blocks[i].w + blocks[i + 1].w,
                            points |-> blocks[i].points + blocks[i + 1].points]
             IN  PoolAdjacentViolators(SubSeq(blocks, 1, i - 1) \o <<merged>> \o
                                       SubSeq(blocks, i + 2, Len(blocks)))

\* ir.fit_transform(X, y): the distinct X ascending, each with the mean y of
\* its samples, made non-decreasing; interior points that interpolation
\* does not need are kept
ir_fit(X, y) ==
    LET distinct == Ascending(SeqToSet(X))
        at(x) == {i \in 1..Len(X) : X[i] = x}
        blocks == list([u \in 1..Len(distinct) |->
                           [sum |-> SumSeq(Kept(y, [i \in 1..Len(X) |-> X[i] = distinct[u]])),
                            w |-> Cardinality(at(distinct[u])),
                            points |-> 1]])
        pooled == PoolAdjacentViolators(blocks)
    IN  [X_thresholds_ |-> distinct,
         y_thresholds_ |->
             Flatten(list([b \in 1..Len(pooled) |->
                              [i \in 1..pooled[b].points |->
                                  Rat(pooled[b].sum, pooled[b].w)]]))]

\* ir.predict([x]): x clipped to the fitted range, then linear interpolation
ir_predict(fitted, x) ==
    LET X == fitted.X_thresholds_
        y == fitted.y_thresholds_
        n == Len(X)
        t == IF RLess(x, Rat(X[1], 1)) THEN Rat(X[1], 1)
             ELSE IF RLess(Rat(X[n], 1), x) THEN Rat(X[n], 1)
             ELSE x
    IN  IF n = 1 THEN y[1]
        ELSE LET i == CHOOSE i \in 1..(n - 1) :
                          RLeq(Rat(X[i], 1), t) /\ RLeq(t, Rat(X[i + 1], 1))
             IN  RDivInt(RAdd(RMul(y[i], Rat(X[i + 1] * t.d - t.n, t.d)),
                              RMul(y[i + 1], Rat(t.n - X[i] * t.d, t.d))),
                         X[i + 1] - X[i])

----------------------------------------------------------------------------
(* quantile_binning_and_est_errors *)

\* the variant that accepts every type
valid_types_Any == {"quantile", "error-wise", "error_wise", "linear"}

valid_types == {"quantile", "error-wise"}

\* the two checks on the arguments
Validate ==
    /\ pc = "quantile_binning_and_est_errors"
    /\ IF Len(errors) # Len(uncertainties) \/ type \notin valid_types
       THEN raised' = "ValueError" /\ pc' = "raised"
       ELSE pc' = "fit" /\ UNCHANGED raised
    /\ UNCHANGED <<call, binning, allocated, model, uncertainty_type, fold, fold_data, fold_result,
                   scorer_locals, remaining, fold_accumulator, results, returned>>

\* _ = ir.fit_transform(uncertainties, errors)
FitIsotonic ==
    /\ pc = "fit"
    /\ ir' = ir_fit(uncertainties, errors)
    /\ pc' = "estimate"
    /\ UNCHANGED <<call, allocated, errors, uncertainties, type, uncert_boundaries,
                   estimated_errors, model, uncertainty_type, fold, fold_data,
                   fold_result, scorer_locals, raised, remaining, fold_accumulator,
                   results, returned>>

\* the branch on type: the quantiles 1/num_bins .. (num_bins-1)/num_bins of
\* the uncertainties and the regression's value at each
EstimateBounds ==
    /\ pc = "estimate"
    /\ IF type = "quantile"
       THEN LET q_conf_higher ==
                    list([q \in 1..(num_bins - 1) |->
                             <<np_quantile(sorted(uncertainties), q, num_bins)>>])
            IN  /\ uncert_boundaries' = q_conf_higher
                /\ estimated_errors' =
                       list([q \in 1..(num_bins - 1) |->
                                ir_predict(ir, q_conf_higher[q][1])])
                /\ pc' = "combine"
                /\ UNCHANGED raised
       ELSE IF type = "error_wise"
       THEN /\ raised' = "NotImplementedError"
            /\ pc' = "raised"
            /\ UNCHANGED <<uncert_boundaries, estimated_errors>>
       ELSE /\ pc' = "combine"
            /\ UNCHANGED <<uncert_boundaries, estimated_errors, raised>>
    /\ UNCHANGED <<call, allocated, errors, uncertainties, type, ir, model, uncertainty_type,
                   fold, fold_data, fold_result, scorer_locals, remaining,
                   fold_accumulator, results, returned>>
\* mutant of CombineAndReturn: the combined lists keep the first entry twice
\* instead of the first and the last
CombineAndReturn_FirstTwice ==
    /\ pc = "combine"
    /\ IF combine_middle_bins /\ estimated_errors = <<>>
       THEN /\ raised' = "IndexError"
            /\ pc' = "raised"
            /\ UNCHANGED <<uncert_boundaries, estimated_errors, returned>>
       ELSE /\ estimated_errors' =
                   (IF combine_middle_bins
                    THEN <<estimated_errors[1], estimated_errors[1]>>
                    ELSE estimated_errors)
            /\ uncert_boundaries' =
                   (IF combine_middle_bins
                    THEN <<uncert_boundaries[1], uncert_boundaries[1]>>
                    ELSE uncert_boundaries)
            /\ returned' = <<uncert_boundaries', estimated_errors'>>
            /\ pc' = "done"
            /\ UNCHANGED raised
    /\ UNCHANGED <<call, allocated, errors, uncertainties, type, ir, model, uncertainty_type,
                   fold, fold_data, fold_result, scorer_locals, remaining,
                   fold_accumulator, results>>


\* if combine_middle_bins: keep [0] and [-1]; return uncert_boundaries,
\* estimated_errors
CombineAndReturn ==
    /\ pc = "combine"
    /\ IF combine_middle_bins /\ estimated_errors = <<>>
       THEN /\ raised' = "IndexError"
            /\ pc' = "raised"
            /\ UNCHANGED <<uncert_boundaries, estimated_errors, returned>>
       ELSE /\ estimated_errors' =
                   (IF combine_middle_bins
                    THEN <<estimated_errors[1], estimated_errors[Len(estimated_errors)]>>
                    ELSE estimated_errors)
            /\ uncert_boundaries' =
                   (IF combine_middle_bins
                    THEN <<uncert_boundaries[1],
                           uncert_boundaries[Len(uncert_boundaries)]>>
                    ELSE uncert_boundaries)
            /\ returned' = <<uncert_boundaries', estimated_errors'>>
            /\ pc' = "done"
            /\ UNCHANGED raised
    /\ UNCHANGED <<call, allocated, errors, uncertainties, type, ir, model, uncertainty_type,
                   fold, fold_data, fold_result, scorer_locals, remaining,
                   fold_accumulator, results>>

NextBinning ==
    \/ Validate
    \/ FitIsotonic
    \/ EstimateBounds
    \/ CombineAndReturn

----------------------------------------------------------------------------
(* Inputs *)

ModelName == "U-NET"
TypeName == "S-MHA"
TargetList == <<0, 1>>

Row(uid, target_idx, fold_, utype, error, bin) ==
    [c \in {"uid"} |-> uid] @@ [c \in {"target_idx"} |-> target_idx] @@
    [c \in {FoldColumn} |-> fold_] @@ [c \in {ErrorColumn(utype)} |-> error] @@
    [c \in {BinsColumn(utype)} |-> bin]

\* Sample tables of MaxSamples rows, all in fold 0, uids 1..MaxSamples in row
\* order.  The scorers group, count and average: their results do not depend
\* on the row order, so the rows are listed in one order only, by
\* (target_idx, bin, error).
CellRank(cell, nbins) ==
    (cell.target_idx * nbins + cell.bin) * (Cardinality(ErrorValues) + 1) + cell.error

FoldTables(nbins) ==
    LET cells == [target_idx : {TargetList[1], TargetList[2]}, error : ErrorValues,
                  bin : 0..(nbins - 1)]
        ordered == {f \in [1..MaxSamples -> cells] :
                       \A i \in 1..(MaxSamples - 1) :
                           CellRank(f[i], nbins) <= CellRank(f[i + 1], nbins)}
    IN  {[i \in 1..MaxSamples |->
             Row(i, f[i].target_idx, 0, TypeName, f[i].error, f[i].bin)] :
         f \in ordered}

\* non-decreasing threshold lists of the given length
RECURSIVE Thresholds(_)
Thresholds(len) ==
    IF len = 0 THEN {<<>>}
    ELSE {Append(t, x) : t \in Thresholds(len - 1), x \in ErrorValues}

NonDecreasing(t) == \A i \in 1..(Len(t) - 1) : t[i] <= t[i + 1]

\* the list read from the other end of the error scale: again non-decreasing
Mirror(t) ==
    LET top == CHOOSE m \in ErrorValues : \A e \in ErrorValues : e <= m
    IN  [i \in 1..Len(t) |-> top - t[Len(t) + 1 - i]]

\* evaluate() runs without a call of quantile_binning_and_est_errors
NoBinningCall ==
    /\ errors = <<>>
    /\ uncertainties = <<>>
    /\ type = ""
    /\ ir = <<>>
    /\ uncert_boundaries = <<>>
    /\ estimated_errors = <<>>

\* The bound table of one model: one row per (fold 0, target).  The first
\* target gets any non-decreasing list, the second the mirrored one, so the
\* two targets are scored against different bounds.
BoundTables(nbins) ==
    {[i \in 1..Len(TargetList) |->
         [c \in {"fold"} |-> 0] @@
         [c \in {BoundsColumn(TypeName)} |-> IF i = 1 THEN b ELSE Mirror(b)]] :
     b \in {t \in Thresholds(nbins - 1) : NonDecreasing(t)}}

InitBoundScorer ==
    /\ handler = "bound"
    /\ original_num_bins \in BinCounts
    /\ combine_middle_bins = FALSE
    /\ num_bins = original_num_bins
    /\ targets = TargetList
    /\ num_folds = 1
    /\ bin_predictions \in [{ModelName} -> FoldTables(num_bins)]
    /\ kwargs \in [estimated_bounds : [{BoundsKey(ModelName)} -> BoundTables(num_bins)]]
    /\ uncertainty_pairs = << <<TypeName, TypeName>> >>
    /\ model = ModelName
    /\ uncertainty_type = TypeName
    /\ fold = 0
    /\ fold_data = Bound_extract_fold_data(bin_predictions[model], fold, uncertainty_type)
    /\ fold_result = <<>>
    /\ scorer_locals = <<>>
    /\ raised = ""
    /\ remaining = <<>>
    /\ fold_accumulator = <<>>
    /\ results = <<>>
    /\ returned = <<>>
    /\ allocated = 0
    /\ calls = <<>>
    /\ pc = "process_single_fold"
    /\ NoBinningCall

SpecBoundScorer == InitBoundScorer /\ [][ProcessSingleFold]_vars

\* num_bins as given to a handler that combines the middle bins
CombinedBinCounts == {2, 3, 4}

\* JaccardEvaluationHandler(num_bins, targets, num_folds, combine_middle_bins)
\* at the call of _process_single_fold for fold 0; the predicted bin labels
\* run over the self.num_bins groups the handler compares
InitJaccardScorer ==
    /\ handler = "jaccard"
    /\ combine_middle_bins \in BOOLEAN
    /\ original_num_bins \in (IF combine_middle_bins THEN CombinedBinCounts ELSE BinCounts)
    /\ num_bins = (IF combine_middle_bins THEN CombinedBins ELSE original_num_bins)
    /\ targets = TargetList
    /\ num_folds = 1
    /\ bin_predictions \in [{ModelName} -> FoldTables(num_bins)]
    /\ kwargs = <<>>
    /\ uncertainty_pairs = << <<TypeName, TypeName>> >>
    /\ model = ModelName
    /\ uncertainty_type = TypeName
    /\ fold = 0
    /\ fold_data = extract_fold_data(bin_predictions[model], fold, uncertainty_type)
    /\ fold_result = <<>>
    /\ scorer_locals = <<>>
    /\ raised = ""
    /\ remaining = <<>>
    /\ fold_accumulator = <<>>
    /\ results = <<>>
    /\ returned = <<>>
    /\ allocated = 0
    /\ calls = <<>>
    /\ pc = "process_single_fold"
    /\ NoBinningCall

SpecJaccardScorer == InitJaccardScorer /\ [][ProcessSingleFold]_vars

\* Sample tables for a whole evaluate() call: the folds of FoldNumbers with
\* RowsPerFold rows each, uids all different, errors from FoldErrorValues,
\* the rows of a fold in one order only.
FoldNumbers == {0, 1}
RowsPerFold == 2
FoldErrorValues == {1, 2}

FoldRows(f, nbins) ==
    LET cells == [target_idx : {TargetList[1], TargetList[2]}, error : FoldErrorValues,
                  bin : 0..(nbins - 1)]
        ordered == {c \in [1..RowsPerFold -> cells] :
                       \A i \in 1..(RowsPerFold - 1) :
                           CellRank(c[i], nbins) <= CellRank(c[i + 1], nbins)}
    IN  {[i \in 1..RowsPerFold |->
             Row(f * RowsPerFold + i, c[i].target_idx, f, TypeName, c[i].error,
                 c[i].bin)] :
         c \in ordered}

RECURSIVE EvaluateTables(_, _)
EvaluateTables(f, nbins) ==
    IF f \notin FoldNumbers THEN {<<>>}
    ELSE {a \o b : a \in FoldRows(f, nbins), b \in EvaluateTables(f + 1, nbins)}

\* JaccardEvaluationHandler(num_bins, targets, num_folds) at the call of
\* evaluate(bin_predictions, uncertainty_pairs)
InitJaccard ==
    /\ handler = "jaccard"
    /\ combine_middle_bins = FALSE
    /\ original_num_bins \in BinCounts
    /\ num_bins = original_num_bins
    /\ targets = TargetList
    /\ num_folds = Cardinality(FoldNumbers)
    /\ bin_predictions \in [{ModelName} -> EvaluateTables(0, num_bins)]
    /\ kwargs = <<>>
    /\ uncertainty_pairs = << <<TypeName, TypeName>> >>
    /\ model = ""
    /\ uncertainty_type = ""
    /\ fold = 0
    /\ fold_data = [errors |-> <<>>, bins |-> <<>>, filter |-> <<>>]
    /\ fold_result = <<>>
    /\ scorer_locals = <<>>
    /\ raised = ""
    /\ remaining = [i \in 1..Len(uncertainty_pairs) |->
                       <<ModelName, uncertainty_pairs[i][1]>>]
    /\ fold_accumulator = <<>>
    /\ results = <<>>
    /\ returned = <<>>
    /\ allocated = 0
    /\ calls = <<>>
    /\ pc = "evaluate"
    /\ NoBinningCall

SpecJaccard == InitJaccard /\ [][Next]_vars

\* ErrorEvaluationHandler(num_bins, targets, num_folds) at the call of
\* evaluate(bin_predictions, uncertainty_pairs, error_scaling_factor=1.0)
InitError ==
    /\ handler = "error"
    /\ combine_middle_bins = FALSE
    /\ original_num_bins \in BinCounts
    /\ num_bins = original_num_bins
    /\ targets = TargetList
    /\ num_folds = Cardinality(FoldNumbers)
    /\ bin_predictions \in [{ModelName} -> EvaluateTables(0, num_bins)]
    /\ kwargs = [error_scaling_factor |-> Rat(1, 1)]
    /\ uncertainty_pairs = << <<TypeName, TypeName>> >>
    /\ model = ""
    /\ uncertainty_type = ""
    /\ fold = 0
    /\ fold_data = [errors |-> <<>>, bins |-> <<>>, filter |-> <<>>]
    /\ fold_result = <<>>
    /\ scorer_locals = <<>>
    /\ raised = ""
    /\ remaining = [i \in 1..Len(uncertainty_pairs) |->
                       <<ModelName, uncertainty_pairs[i][1]>>]
    /\ fold_accumulator = <<>>
    /\ results = <<>>
    /\ returned = <<>>
    /\ allocated = 0
    /\ calls = <<>>
    /\ pc = "evaluate"
    /\ NoBinningCall

SpecError == InitError /\ [][Next]_vars

\* The bound table of one model for a whole evaluate() call: one row per
\* (fold, target), fold after fold; every row holds the thresholds 1, 2, ...
EvaluateBoundTable(nbins) ==
    LET nt == Len(TargetList)
    IN  [r \in 1..(Cardinality(FoldNumbers) * nt) |->
            [c \in {"fold"} |-> (r - 1) \div nt] @@
            [c \in {BoundsColumn(TypeName)} |-> [q \in 1..(nbins - 1) |-> q]]]

\* BoundEvaluationHandler(num_bins, targets, num_folds) at the call of
\* evaluate(bin_predictions, uncertainty_pairs, estimated_bounds=...)
InitBound ==
    /\ handler = "bound"
    /\ combine_middle_bins = FALSE
    /\ original_num_bins \in BinCounts
    /\ num_bins = original_num_bins
    /\ targets = TargetList
    /\ num_folds = Cardinality(FoldNumbers)
    /\ bin_predictions \in [{ModelName} -> EvaluateTables(0, num_bins)]
    /\ kwargs = [estimated_bounds |->
                    [x \in {BoundsKey(ModelName)} |-> EvaluateBoundTable(num_bins)]]
    /\ uncertainty_pairs = << <<TypeName, TypeName>> >>
    /\ model = ""
    /\ uncertainty_type = ""
    /\ fold = 0
    /\ fold_data = [errors |-> <<>>, bins |-> <<>>, filter |-> <<>>, fold_num |-> 0]
    /\ fold_result = <<>>
    /\ scorer_locals = <<>>
    /\ raised = ""
    /\ remaining = [i \in 1..Len(uncertainty_pairs) |->
                       <<ModelName, uncertainty_pairs[i][1]>>]
    /\ fold_accumulator = <<>>
    /\ results = <<>>
    /\ returned = <<>>
    /\ allocated = 0
    /\ calls = <<>>
    /\ pc = "evaluate"
    /\ NoBinningCall

SpecBound == InitBound /\ [][Next]_vars

\* the model names of bin_predictions in the order of the dict: the model
\* alone, a model with an empty name, and both in either order
ModelOrders == {<<ModelName>>, <<"">>, <<ModelName, "">>, <<"", ModelName>>}

OtherModelName == "PHD-NET"

\* the tables in which every fold has a row of every target
CompleteTables(nbins) ==
    {t \in EvaluateTables(0, nbins) :
        \A f \in FoldNumbers : \A k \in 1..Len(TargetList) :
            \E i \in 1..Len(t) : t[i][FoldColumn] = f /\ t[i]["target_idx"] = TargetList[k]}

\* the keyword arguments of evaluate(): estimated_bounds not given, None, an
\* empty dict, a dict with a table for every model, a dict with a table for
\* another model only, and a dict whose tables have no row
BoundKwargs(names, nbins) ==
    {<<>>,
     [estimated_bounds |-> None],
     [estimated_bounds |-> <<>>],
     [estimated_bounds |-> [x \in {BoundsKey(n) : n \in names} |->
                               EvaluateBoundTable(nbins)]],
     [estimated_bounds |-> [x \in {BoundsKey(OtherModelName)} |->
                               EvaluateBoundTable(nbins)]],
     [estimated_bounds |-> [x \in {BoundsKey(n) : n \in names} |-> <<>>]]}

\* BoundEvaluationHandler.evaluate(bin_predictions, uncertainty_pairs, **kwargs)
\* with and without the inputs bound scoring requires
InitBoundInputs ==
    /\ handler = "bound"
    /\ combine_middle_bins = FALSE
    /\ original_num_bins \in BinCounts
    /\ num_bins = original_num_bins
    /\ targets = TargetList
    /\ num_folds = Cardinality(FoldNumbers)
    /\ uncertainty_pairs = << <<TypeName, TypeName>> >>
    /\ \E order \in ModelOrders : \E t \in CompleteTables(num_bins) :
           /\ bin_predictions = [n \in SeqToSet(order) |-> t]
           /\ kwargs \in BoundKwargs(SeqToSet(order), num_bins)
           /\ remaining = [i \in 1..Len(order) |-> <<order[i], TypeName>>]
    /\ model = ""
    /\ uncertainty_type = ""
    /\ fold = 0
    /\ fold_data = [errors |-> <<>>, bins |-> <<>>, filter |-> <<>>, fold_num |-> 0]
    /\ fold_result = <<>>
    /\ scorer_locals = <<>>
    /\ raised = ""
    /\ fold_accumulator = <<>>
    /\ results = <<>>
    /\ returned = <<>>
    /\ allocated = 0
    /\ calls = <<>>
    /\ pc = "evaluate"
    /\ NoBinningCall

SpecBoundInputs == InitBoundInputs /\ [][Next]_vars

\* the ids a frame's rows may carry: one more than there are rows
FrameIds == 1..(MaxSamples + 1)

\* fold_errors and fold_bins handed to a scorer as two frames of MaxSamples
\* rows: the errors frame carries the ids 1, 2, ..., the targets and one
\* error value; the bins frame carries ids of its own, which may repeat or
\* differ
ScorerFrames(nbins) ==
    {[errors |-> [i \in 1..MaxSamples |->
                     [c \in {"uid"} |-> i] @@ [c \in {"target_idx"} |-> tg[i]] @@
                     [c \in {ErrorColumn(TypeName)} |-> er]],
      bins |-> [i \in 1..MaxSamples |->
                   [c \in {"uid"} |-> id[i]] @@ [c \in {"target_idx"} |-> tg[i]] @@
                   [c \in {BinsColumn(TypeName)} |-> lb[i]]]] :
     tg \in {t \in [1..MaxSamples -> {TargetList[1], TargetList[2]}] :
                \A i \in 1..(MaxSamples - 1) : t[i] <= t[i + 1]},
     er \in FoldErrorValues,
     id \in [1..MaxSamples -> FrameIds],
     lb \in [1..MaxSamples -> 0..(nbins - 1)]}

\* a scorer called through _process_single_fold on two frames that need not
\* hold the same ids
InitScorerFrames ==
    /\ handler \in {"bound", "jaccard", "error"}
    /\ combine_middle_bins = FALSE
    /\ original_num_bins \in BinCounts
    /\ num_bins = original_num_bins
    /\ targets = TargetList
    /\ num_folds = 1
    /\ bin_predictions = <<>>
    /\ kwargs = (IF handler = "bound"
                 THEN [estimated_bounds |->
                          [x \in {BoundsKey(ModelName)} |-> EvaluateBoundTable(num_bins)]]
                 ELSE <<>>)
    /\ uncertainty_pairs = << <<TypeName, TypeName>> >>
    /\ model = ModelName
    /\ uncertainty_type = TypeName
    /\ fold = 0
    /\ \E frames \in ScorerFrames(num_bins) :
           fold_data = (IF handler = "bound" THEN frames @@ [fold_num |-> 0]
                        ELSE frames)
    /\ fold_result = <<>>
    /\ scorer_locals = <<>>
    /\ raised = ""
    /\ remaining = <<>>
    /\ fold_accumulator = <<>>
    /\ results = <<>>
    /\ returned = <<>>
    /\ allocated = 0
    /\ calls = <<>>
    /\ pc = "process_single_fold"
    /\ NoBinningCall

SpecScorerFrames == InitScorerFrames /\ [][ProcessSingleFold]_vars

\* a second uncertainty type, with columns of its own in the same table
OtherTypeName == "E-MHA"

\* the folds a row may belong to: the folds evaluate() asks for and one more
RowFolds == FoldNumbers \cup {Cardinality(FoldNumbers)}

\* Sample tables of MaxSamples rows with the columns of both uncertainty
\* types, uids 1..MaxSamples in row order, the folds in any order, the
\* targets alternating
MixedFoldTables(nbins) ==
    {[i \in 1..MaxSamples |->
         Row(i, TargetList[((i - 1) % Len(TargetList)) + 1], fd[i], TypeName, er[i],
             lb[i]) @@
         [c \in {ErrorColumn(OtherTypeName)} |-> er[i] + 1] @@
         [c \in {BinsColumn(OtherTypeName)} |-> nbins - 1 - lb[i]]] :
     fd \in [1..MaxSamples -> RowFolds],
     er \in [1..MaxSamples -> FoldErrorValues],
     lb \in [1..MaxSamples -> 0..(nbins - 1)]}

\* _process_folds about to extract fold `fold` of a table for one of the
\* two uncertainty types
InitExtract ==
    /\ handler \in {"error", "bound"}
    /\ combine_middle_bins = FALSE
    /\ original_num_bins \in BinCounts
    /\ num_bins = original_num_bins
    /\ targets = TargetList
    /\ num_folds = Cardinality(FoldNumbers)
    /\ bin_predictions \in [{ModelName} -> MixedFoldTables(num_bins)]
    /\ kwargs = <<>>
    /\ uncertainty_pairs = << <<TypeName, TypeName>>, <<OtherTypeName, OtherTypeName>> >>
    /\ model = ModelName
    /\ uncertainty_type \in {TypeName, OtherTypeName}
    /\ fold \in FoldNumbers
    /\ fold_data = <<>>
    /\ fold_result = <<>>
    /\ scorer_locals = <<>>
    /\ raised = ""
    /\ remaining = <<>>
    /\ fold_accumulator = <<>>
    /\ results = <<>>
    /\ returned = <<>>
    /\ allocated = 0
    /\ calls = <<>>
    /\ pc = "next_fold"
    /\ NoBinningCall

SpecExtract == InitExtract /\ [][ExtractFoldData]_vars

\* the lists of the given lengths over the given values
ListsOf(values, lengths) == UNION {[1..n -> values] : n \in lengths}

\* the type argument: the two values the validation accepts, the value the
\* second branch tests for, and a value that is neither
PartitionTypes == {"quantile", "error-wise", "error_wise", "linear"}

\* quantile_binning_and_est_errors runs outside evaluate()
NoEvaluateCall ==
    /\ handler = ""
    /\ targets = <<>>
    /\ num_folds = 0
    /\ kwargs = <<>>
    /\ bin_predictions = <<>>
    /\ uncertainty_pairs = <<>>
    /\ model = ""
    /\ uncertainty_type = ""
    /\ fold = 0
    /\ fold_data = <<>>
    /\ fold_result = <<>>
    /\ scorer_locals = <<>>
    /\ remaining = <<>>
    /\ fold_accumulator = <<>>
    /\ results = <<>>

\* quantile_binning_and_est_errors(errors, uncertainties, num_bins, type,
\* combine_middle_bins=...) on entry
InitBinning ==
    /\ NoEvaluateCall
    /\ errors \in ListsOf(ErrorValues, 0..MaxSamples)
    /\ uncertainties \in ListsOf(ErrorValues, 1..MaxSamples)
    /\ num_bins \in BinCounts
    /\ original_num_bins = num_bins
    /\ type \in PartitionTypes
    /\ combine_middle_bins \in BOOLEAN
    /\ ir = <<>>
    /\ uncert_boundaries = <<>>
    /\ estimated_errors = <<>>
    /\ raised = ""
    /\ returned = <<>>
    /\ allocated = 0
    /\ calls = <<>>
    /\ pc = "quantile_binning_and_est_errors"

SpecBinning == InitBinning /\ [][NextBinning]_vars
\* the num_bins of the calls in which combining drops a middle quantile
CollapseBinCounts == {2, 3, 4}

\* quantile_binning_and_est_errors(errors, uncertainties, num_bins, type,
\* combine_middle_bins=...) on entry, with up to four quantile bins
InitCollapse ==
    /\ NoEvaluateCall
    /\ errors \in ListsOf(ErrorValues, 1..MaxSamples)
    /\ uncertainties \in ListsOf(ErrorValues, 1..MaxSamples)
    /\ num_bins \in CollapseBinCounts
    /\ original_num_bins = num_bins
    /\ type \in PartitionTypes
    /\ combine_middle_bins \in BOOLEAN
    /\ ir = <<>>
    /\ uncert_boundaries = <<>>
    /\ estimated_errors = <<>>
    /\ raised = ""
    /\ returned = <<>>
    /\ allocated = 0
    /\ calls = <<>>
    /\ pc = "quantile_binning_and_est_errors"

SpecCollapse == InitCollapse /\ [][NextBinning]_vars

\* JaccardEvaluationHandler or BoundEvaluationHandler (num_bins, targets,
\* num_folds) at the call of evaluate(): the two handlers whose scorers
\* record one value per target and bin
InitSeparated ==
    /\ handler \in {"jaccard", "bound"}
    /\ combine_middle_bins = FALSE
    /\ original_num_bins \in BinCounts
    /\ num_bins = original_num_bins
    /\ targets = TargetList
    /\ num_folds = Cardinality(FoldNumbers)
    /\ bin_predictions \in [{ModelName} -> EvaluateTables(0, num_bins)]
    /\ kwargs = (IF handler = "bound"
                 THEN [estimated_bounds |->
                          [x \in {BoundsKey(ModelName)} |-> EvaluateBoundTable(num_bins)]]
                 ELSE <<>>)
    /\ uncertainty_pairs = << <<TypeName, TypeName>> >>
    /\ model = ""
    /\ uncertainty_type = ""
    /\ fold = 0
    /\ fold_data = (IF handler = "bound"
                    THEN [errors |-> <<>>, bins |-> <<>>, filter |-> <<>>, fold_num |-> 0]
                    ELSE [errors |-> <<>>, bins |-> <<>>, filter |-> <<>>])
    /\ fold_result = <<>>
    /\ scorer_locals = <<>>
    /\ raised = ""
    /\ remaining = [i \in 1..Len(uncertainty_pairs) |->
                       <<ModelName, uncertainty_pairs[i][1]>>]
    /\ fold_accumulator = <<>>
    /\ results = <<>>
    /\ returned = <<>>
    /\ allocated = 0
    /\ calls = <<>>
    /\ pc = "evaluate"
    /\ NoBinningCall

SpecSeparated == InitSeparated /\ [][Next]_vars

\* Tables with a row that no fold of the run and no target of the handler
\* owns.  The core table has one row per (fold, target), fold after fold,
\* with errors 1, 2, ... and any bin labels; the foreign row lies in the fold
\* after the last or belongs to a target after the last (or both), comes
\* first or last in the table, and has the uid of a core row or its own.
ForeignErrors == {0, 7}
ForeignBinCounts == {2}

CoreTables(nbins) ==
    LET nt == Len(TargetList)
        n == Cardinality(FoldNumbers) * nt
    IN  {[r \in 1..n |->
             Row(r, TargetList[((r - 1) % nt) + 1], (r - 1) \div nt, TypeName, r, lb[r])] :
         lb \in [1..n -> 0..(nbins - 1)]}

ForeignTarget == TargetList[Len(TargetList)] + 1

ForeignRows(core, nbins) ==
    {Row(uid, cell[1], cell[2], TypeName, er, lb) :
        uid \in {1, Len(core) + 1},
        cell \in {c \in (SeqToSet(TargetList) \cup {ForeignTarget}) \X RowFolds :
                     c[1] = ForeignTarget \/ c[2] \notin FoldNumbers},
        er \in ForeignErrors,
        lb \in 0..(nbins - 1)}

WithForeignRow(core, nbins) ==
    {<<row>> \o core : row \in ForeignRows(core, nbins)} \cup
    {Append(core, row) : row \in ForeignRows(core, nbins)}

\* one of the three handlers at the call of evaluate() over two models: the
\* first has a table with a foreign row, the second the same table without
InitForeign ==
    /\ handler \in {"jaccard", "error", "bound"}
    /\ combine_middle_bins = FALSE
    /\ original_num_bins \in ForeignBinCounts
    /\ num_bins = original_num_bins
    /\ targets = TargetList
    /\ num_folds = Cardinality(FoldNumbers)
    /\ \E core \in CoreTables(num_bins) : \E table \in WithForeignRow(core, num_bins) :
           bin_predictions = [n \in {ModelName, OtherModelName} |->
                                 IF n = ModelName THEN table ELSE core]
    /\ kwargs = (CASE handler = "bound" ->
                        [estimated_bounds |->
                            [x \in {BoundsKey(ModelName), BoundsKey(OtherModelName)} |->
                                EvaluateBoundTable(num_bins)]]
                   [] handler = "error" -> [error_scaling_factor |-> Rat(1, 1)]
                   [] OTHER -> <<>>)
    /\ uncertainty_pairs = << <<TypeName, TypeName>> >>
    /\ model = ""
    /\ uncertainty_type = ""
    /\ fold = 0
    /\ fold_data = (IF handler = "bound"
                    THEN [errors |-> <<>>, bins |-> <<>>, filter |-> <<>>, fold_num |-> 0]
                    ELSE [errors |-> <<>>, bins |-> <<>>, filter |-> <<>>])
    /\ fold_result = <<>>
    /\ scorer_locals = <<>>
    /\ raised = ""
    /\ remaining = << <<ModelName, TypeName>>, <<OtherModelName, TypeName>> >>
    /\ fold_accumulator = <<>>
    /\ results = <<>>
    /\ returned = <<>>
    /\ allocated = 0
    /\ calls = <<>>
    /\ pc = "evaluate"
    /\ NoBinningCall

SpecForeign == InitForeign /\ [][Next]_vars

\* bin_wise_jaccard or bin_wise_bound_eval about to be called on one fold
InitRatioScorers == InitJaccardScorer \/ InitBoundScorer

SpecRatioScorers == InitRatioScorers /\ [][ProcessSingleFold]_vars


\* Names that hold a space: model + " " + uncertainty_type of ("U-NET",
\* "S-MHA E-MHA") and of ("U-NET S-MHA", "E-MHA") is the same string.
KeyModelNames == {ModelName, ModelName \o " " \o TypeName}
KeyTypeNames == {TypeName, OtherTypeName, TypeName \o " " \o OtherTypeName}

\* the error value every row of model m carries in the columns of type t:
\* no two (model, type) pairs have the same
PairCode(m, t) ==
    (IF m = ModelName THEN 0 ELSE Cardinality(KeyTypeNames)) +
    (CASE t = TypeName -> 1
       [] t = OtherTypeName -> 2
       [] OTHER -> 3)

\* The sample table of model m: one row per (fold, target), fold after fold,
\* with the columns of every type of KeyTypeNames.
KeyedTable(m, nbins) ==
    LET nt == Len(TargetList)
        typeOf(c) == CHOOSE t \in KeyTypeNames : c \in {ErrorColumn(t), BinsColumn(t)}
    IN  [r \in 1..(Cardinality(FoldNumbers) * nt) |->
            [c \in {"uid"} |-> r] @@
            [c \in {"target_idx"} |-> TargetList[((r - 1) % nt) + 1]] @@
            [c \in {FoldColumn} |-> (r - 1) \div nt] @@
            [c \in {ErrorColumn(t) : t \in KeyTypeNames} |-> PairCode(m, typeOf(c))] @@
            [c \in {BinsColumn(t) : t \in KeyTypeNames} |->
                (PairCode(m, typeOf(c)) + r) % nbins]]

\* the models of bin_predictions in dict order, and the uncertainty pairs
\* [type, label] of the call: one or two of each, a type possibly twice
KeyModelOrders ==
    {<<a>> : a \in KeyModelNames} \cup
    {o \in KeyModelNames \X KeyModelNames : o[1] # o[2]}
KeyPairLists ==
    {<< <<a, "label">> >> : a \in KeyTypeNames} \cup
    {<< <<a, "label">>, <<b, a>> >> : a \in KeyTypeNames, b \in KeyTypeNames}

\* JaccardEvaluationHandler / ErrorEvaluationHandler at the call of
\* evaluate(bin_predictions, uncertainty_pairs) over several models and pairs
InitKeys ==
    /\ handler \in {"jaccard", "error"}
    /\ combine_middle_bins = FALSE
    /\ original_num_bins \in BinCounts
    /\ num_bins = original_num_bins
    /\ targets = TargetList
    /\ num_folds = Cardinality(FoldNumbers)
    /\ uncertainty_pairs \in KeyPairLists
    /\ kwargs = <<>>
    /\ \E order \in KeyModelOrders :
           /\ bin_predictions = [n \in SeqToSet(order) |-> KeyedTable(n, num_bins)]
           /\ remaining =
                 [i \in 1..(Len(order) * Len(uncertainty_pairs)) |->
                     <<order[((i - 1) \div Len(uncertainty_pairs)) + 1],
                       uncertainty_pairs[((i - 1) % Len(uncertainty_pairs)) + 1][1]>>]
    /\ model = ""
    /\ uncertainty_type = ""
    /\ fold = 0
    /\ fold_data = [errors |-> <<>>, bins |-> <<>>, filter |-> <<>>]
    /\ fold_result = <<>>
    /\ scorer_locals = <<>>
    /\ raised = ""
    /\ fold_accumulator = <<>>
    /\ results = <<>>
    /\ returned = <<>>
    /\ allocated = 0
    /\ calls = <<>>
    /\ pc = "evaluate"
    /\ NoBinningCall

SpecKeys == InitKeys /\ [][Next]_vars

\* how many times the caller calls evaluate() on one handler
MaxCalls == 2

\* the uncertainty pairs of a call: one type or the other
CallPairLists == {<< <<a, "label">> >> : a \in {TypeName, OtherTypeName}}

\* The caller keeps what evaluate() returned and calls evaluate() on the same
\* handler again, with the same sample tables and uncertainty pairs of its
\* choice.  The returned dict holds the inner dicts of `results`, so the
\* caller's entry names the container they belong to.  A new call has new
\* locals: what the variables held in the call before is never read before
\* it is assigned.
EvaluateAgain ==
    /\ pc = "done"
    /\ Len(calls) < MaxCalls - 1
    /\ calls' = Append(calls, [container |-> allocated,
                               uncertainty_pairs |-> uncertainty_pairs,
                               value |-> returned])
    /\ uncertainty_pairs' \in CallPairLists
    /\ remaining' = [i \in 1..Len(uncertainty_pairs') |->
                        <<ModelName, uncertainty_pairs'[i][1]>>]
    /\ returned' = <<>>
    /\ pc' = "evaluate"
    /\ UNCHANGED <<handler, num_bins, original_num_bins, combine_middle_bins, targets,
                   num_folds, kwargs, bin_predictions, binning, allocated, model,
                   uncertainty_type, fold, fold_data, fold_result, scorer_locals, raised,
                   fold_accumulator, results>>

NextCalls ==
    \/ Next
    \/ EvaluateAgain

\* JaccardEvaluationHandler / ErrorEvaluationHandler at the first call of
\* evaluate() on one model's table
InitCalls ==
    /\ handler \in {"jaccard", "error"}
    /\ combine_middle_bins = FALSE
    /\ original_num_bins \in BinCounts
    /\ num_bins = original_num_bins
    /\ targets = TargetList
    /\ num_folds = Cardinality(FoldNumbers)
    /\ uncertainty_pairs \in CallPairLists
    /\ kwargs = <<>>
    /\ bin_predictions = [n \in {ModelName} |-> KeyedTable(n, num_bins)]
    /\ remaining = [i \in 1..Len(uncertainty_pairs) |->
                       <<ModelName, uncertainty_pairs[i][1]>>]
    /\ model = ""
    /\ uncertainty_type = ""
    /\ fold = 0
    /\ fold_data = [errors |-> <<>>, bins |-> <<>>, filter |-> <<>>]
    /\ fold_result = <<>>
    /\ scorer_locals = <<>>
    /\ raised = ""
    /\ fold_accumulator = <<>>
    /\ results = <<>>
    /\ returned = <<>>
    /\ allocated = 0
    /\ calls = <<>>
    /\ pc = "evaluate"
    /\ NoBinningCall

SpecCalls == InitCalls /\ [][NextCalls]_vars

\* the sample table of the worked example of the quantile thresholds: one
\* target, errors [1, 2, 3, 4], folds [0, 0, 1, 1], bins [0, 1, 0, 1]
QuantileFixture ==
    <<Row(1, TargetList[1], 0, TypeName, 1, 0),
      Row(2, TargetList[1], 0, TypeName, 2, 1),
      Row(3, TargetList[1], 1, TypeName, 3, 0),
      Row(4, TargetList[1], 1, TypeName, 4, 1)>>

\* JaccardEvaluationHandler(num_bins, targets, num_folds) at the call of
\* evaluate(): the tables of InitJaccard with both targets, and the worked
\* example with its one target
InitThresholds ==
    /\ handler = "jaccard"
    /\ combine_middle_bins = FALSE
    /\ original_num_bins \in BinCounts
    /\ num_bins = original_num_bins
    /\ num_folds = Cardinality(FoldNumbers)
    /\ \E t \in EvaluateTables(0, num_bins) \cup {QuantileFixture} :
           /\ bin_predictions = [n \in {ModelName} |-> t]
           /\ targets = (IF t = QuantileFixture THEN <<TargetList[1]>> ELSE TargetList)
    /\ kwargs = <<>>
    /\ uncertainty_pairs = << <<TypeName, TypeName>> >>
    /\ model = ""
    /\ uncertainty_type = ""
    /\ fold = 0
    /\ fold_data = [errors |-> <<>>, bins |-> <<>>, filter |-> <<>>]
    /\ fold_result = <<>>
    /\ scorer_locals = <<>>
    /\ raised = ""
    /\ remaining = [i \in 1..Len(uncertainty_pairs) |->
                       <<ModelName, uncertainty_pairs[i][1]>>]
    /\ fold_accumulator = <<>>
    /\ results = <<>>
    /\ returned = <<>>
    /\ allocated = 0
    /\ calls = <<>>
    /\ pc = "evaluate"
    /\ NoBinningCall

SpecThresholds == InitThresholds /\ [][Next]_vars

\* Sample tables of MaxSamples rows whose rows are in no particular order:
\* the folds (those evaluate() asks for and one more) and the bin labels in
\* any order, the targets alternating, the errors falling from row to row
PooledTables(nbins) ==
    {[i \in 1..MaxSamples |->
         Row(i, TargetList[((i - 1) % Len(TargetList)) + 1], fd[i], TypeName,
             MaxSamples + 1 - i, lb[i])] :
     fd \in [1..MaxSamples -> RowFolds],
     lb \in [1..MaxSamples -> 0..(nbins - 1)]}

\* ErrorEvaluationHandler(num_bins, targets, num_folds) at the call of
\* evaluate(bin_predictions, uncertainty_pairs, error_scaling_factor=2.0)
InitPooled ==
    /\ handler = "error"
    /\ combine_middle_bins = FALSE
    /\ original_num_bins \in BinCounts
    /\ num_bins = original_num_bins
    /\ targets = TargetList
    /\ num_folds = Cardinality(FoldNumbers)
    /\ bin_predictions \in [{ModelName} -> PooledTables(num_bins)]
    /\ kwargs = [error_scaling_factor |-> Rat(2, 1)]
    /\ uncertainty_pairs = << <<TypeName, TypeName>> >>
    /\ model = ""
    /\ uncertainty_type = ""
    /\ fold = 0
    /\ fold_data = [errors |-> <<>>, bins |-> <<>>, filter |-> <<>>]
    /\ fold_result = <<>>
    /\ scorer_locals = <<>>
    /\ raised = ""
    /\ remaining = [i \in 1..Len(uncertainty_pairs) |->
                       <<ModelName, uncertainty_pairs[i][1]>>]
    /\ fold_accumulator = <<>>
    /\ results = <<>>
    /\ returned = <<>>
    /\ allocated = 0
    /\ calls = <<>>
    /\ pc = "evaluate"
    /\ NoBinningCall

SpecPooled == InitPooled /\ [][Next]_vars

\* error_scaling_factor of the call, and the default when it is not given
ScalingFactors == {Rat(1, 1), Rat(2, 1), Rat(1, 2)}

\* the sample table of the worked example: one target, bins [0, 0, 1],
\* errors [2, 4, 10]
ExampleTable ==
    <<Row(1, TargetList[1], 0, TypeName, 2, 0),
      Row(2, TargetList[1], 0, TypeName, 4, 0),
      Row(3, TargetList[1], 0, TypeName, 10, 1)>>

\* ErrorEvaluationHandler(num_bins, targets, num_folds) at the call of
\* _process_single_fold for fold 0
InitErrorScorer ==
    /\ handler = "error"
    /\ combine_middle_bins = FALSE
    /\ original_num_bins \in BinCounts
    /\ num_bins = original_num_bins
    /\ targets = TargetList
    /\ num_folds = 1
    /\ bin_predictions \in [{ModelName} -> FoldTables(num_bins) \cup {ExampleTable}]
    /\ kwargs \in {<<>>} \cup [error_scaling_factor : ScalingFactors]
    /\ uncertainty_pairs = << <<TypeName, TypeName>> >>
    /\ model = ModelName
    /\ uncertainty_type = TypeName
    /\ fold = 0
    /\ fold_data = extract_fold_data(bin_predictions[model], fold, uncertainty_type)
    /\ fold_result = <<>>
    /\ scorer_locals = <<>>
    /\ raised = ""
    /\ remaining = <<>>
    /\ fold_accumulator = <<>>
    /\ results = <<>>
    /\ returned = <<>>
    /\ allocated = 0
    /\ calls = <<>>
    /\ pc = "process_single_fold"
    /\ NoBinningCall

SpecErrorScorer == InitErrorScorer /\ [][ProcessSingleFold]_vars

----------------------------------------------------------------------------
(* What the claims speak of, read off the scorer's inputs and outputs *)

\* the rows of the fold that belong to target t and carry bin label q
RowsOfBin(t, q) ==
    {i \in 1..Len(fold_data.errors) :
        /\ fold_data.errors[i]["target_idx"] = t
        /\ fold_data.bins[i][BinsColumn(uncertainty_type)] = q}

RowError(i) == fold_data.errors[i][ErrorColumn(uncertainty_type)]

Population(k, q) == Cardinality(RowsOfBin(targets[k], q))

TargetPositions == 1..Len(targets)
BinIndexes == 0..(num_bins - 1)

\* the scorer returned normally for the fold
BoundScored == handler = "bound" /\ pc = "accumulate_fold_result"

\* the learned thresholds of the target at position k, for the only fold
BoundsOfTarget(k) ==
    kwargs.estimated_bounds[BoundsKey(model)][k][BoundsColumn(uncertainty_type)]

\* the interval of bin q: (0, b0], (b[q-1], b[q]], (b[last], +inf)
WithinInterval(q, e, b) ==
    IF q = 0 THEN 0 < e /\ e <= b[1]
    ELSE IF q = num_bins - 1 THEN e > b[Len(b)]
    ELSE b[q] < e /\ e <= b[q + 1]

\* the accuracy the scorer recorded for bin q of the target at position k
BinAccuracy(k, q) ==
    fold_result["all bins concatenated targets seperated"][k][q + 1][1]

----------------------------------------------------------------------------
(* C1: in bin_wise_bound_eval every predicted bin that holds no sample is  *)
(* recorded with accuracy exactly 1.0, whatever the thresholds.            *)
C1_EmptyBinScoresOne ==
    BoundScored =>
        \A k \in TargetPositions : \A q \in BinIndexes :
            Population(k, q) = 0 => BinAccuracy(k, q) = Rat(1, 1)

(* C2: in bin_wise_bound_eval the accuracy of a non-empty bin is the       *)
(* number of its samples inside the bin's interval over its population,   *)
(* bins in best-to-worst order; an error of 0 in bin 0 is a violation and  *)
(* a bin whose samples all violate scores 0.0.                             *)
C2_NonEmptyBinAccuracy ==
    BoundScored =>
        \A k \in TargetPositions : \A q \in BinIndexes :
            Population(k, q) > 0 =>
                LET passing == {i \in RowsOfBin(targets[k], q) :
                                   WithinInterval(q, RowError(i), BoundsOfTarget(k))}
                    expected == Rat(Cardinality(passing), Population(k, q))
                IN  /\ BinAccuracy(k, q) = expected
                    /\ fold_result["mean all"][q + 1][k] = expected

\* a bin 0 holding an error of 0 beside a passing sample, and another
\* non-empty bin where every sample violates
C2_Witness ==
    /\ BoundScored
    /\ \E k \in TargetPositions :
          /\ \E i \in RowsOfBin(targets[k], 0) : RowError(i) = 0
          /\ BinAccuracy(k, 0) = Rat(1, 2)
    /\ \E k \in TargetPositions : \E q \in BinIndexes :
          Population(k, q) > 0 /\ BinAccuracy(k, q) = Rat(0, 1)

(* C3: in bin_wise_bound_eval the per-target summary is the population-    *)
(* weighted mean of the per-bin accuracies, and a target with no sample in *)
(* the fold does not divide by zero: the call still completes.             *)
C3_TargetSummaryNeverDivides ==
    /\ BoundScored =>
          \A k \in TargetPositions :
              scorer_locals.all_target_perc[k] =
                  RDivInt(RSum([b \in 1..num_bins |->
                                   RMul(BinAccuracy(k, b - 1), Rat(Population(k, b - 1), 1))]),
                          SumSeq([b \in 1..num_bins |-> Population(k, b - 1)]))
    /\ (handler = "bound" /\ pc # "process_single_fold") => raised = ""

(* C4: in bin_wise_bound_eval 'mean all bins'[q] is the sum over targets   *)
(* of accuracy * population of bin q over the total population of bin q,   *)
(* and exactly 0.0 when that total is zero.                                *)
C4_CrossTargetBinSummary ==
    BoundScored =>
        \A q \in BinIndexes :
            LET total == SumSeq([k \in TargetPositions |-> Population(k, q)])
                weighted == RSum([k \in TargetPositions |->
                                     RMul(BinAccuracy(k, q), Rat(Population(k, q), 1))])
            IN  fold_result["mean all bins"][q + 1] =
                    IF total = 0 THEN Rat(0, 1) ELSE RDivInt(weighted, total)

\* one bin empty for every target, another where the targets differ in
\* population and in accuracy
C4_Witness ==
    /\ BoundScored
    /\ \E q \in BinIndexes : \A k \in TargetPositions : Population(k, q) = 0
    /\ \E q \in BinIndexes :
          /\ Population(1, q) > Population(2, q)
          /\ Population(2, q) > 0
          /\ BinAccuracy(1, q) # BinAccuracy(2, q)
          /\ BinAccuracy(1, q) # Rat(0, 1)

----------------------------------------------------------------------------
(* What the Jaccard claims speak of *)

JaccardScored == handler = "jaccard" /\ pc = "accumulate_fold_result"

RowsOfTarget(t) ==
    {i \in 1..Len(fold_data.errors) : fold_data.errors[i]["target_idx"] = t}

RowId(i) == fold_data.errors[i]["uid"]

\* the sample ids of the target at position k, and those with bin label q
TargetIds(k) == {RowId(i) : i \in RowsOfTarget(targets[k])}
PredIds(k, q) == {RowId(i) : i \in RowsOfBin(targets[k], q)}

\* the error of sample id of the target at position k
IdError(k, id) ==
    RowError(CHOOSE i \in RowsOfTarget(targets[k]) : RowId(i) = id)

\* what the scorer built for the target at position k: the thresholds, the
\* quantile groups as built, and the two lists it compared bin by bin
RecordedThresholds(k) == scorer_locals[k].quantile_thresholds
BuiltGroups(k) == scorer_locals[k].key_groups_built
ComparedGroup(k, b) == SeqToSet(scorer_locals[k].key_groups[b + 1])
ComparedPred(k, b) == SeqToSet(scorer_locals[k].pred_bins_keys[b + 1])

\* the recorded values of output bin b for the target at position k
JaccardOf(k, b) == fold_result["all bins"][b + 1][k]
RecallOf(k, b) == fold_result["all bins recall"][b + 1][k]
PrecisionOf(k, b) == fold_result["all bins precision"][b + 1][k]

\* |P n G| / |P u G|, with 0 / 0 taken as 0
SetJaccard(P, G) ==
    IF P \cup G = {} THEN Rat(0, 1)
    ELSE Rat(Cardinality(P \cap G), Cardinality(P \cup G))

InUnitInterval(x) == IsNum(x) /\ RLeq(Rat(0, 1), x) /\ RLeq(x, Rat(1, 1))

(* C5, as stated: the Jaccard value of every output bin is |P n G| / |P u G| *)
(* with 0/0 as 0, lies in [0,1], and is 1 exactly when the predicted id set *)
(* and the ground-truth id set of the bin are identical.                    *)
C5_JaccardOneIffIdentical ==
    JaccardScored =>
        \A k \in TargetPositions : \A b \in BinIndexes :
            LET P == PredIds(k, num_bins - 1 - b)
                G == ComparedGroup(k, b)
            IN  /\ JaccardOf(k, b) = SetJaccard(P, G)
                /\ InUnitInterval(JaccardOf(k, b))
                /\ (JaccardOf(k, b) = Rat(1, 1)) <=> (P = G)

(* C5, amended: the Jaccard value of every output bin is |P n G| / |P u G|  *)
(* with 0/0 as 0, lies in [0,1], and is 1 exactly when the predicted id set *)
(* and the ground-truth id set of the bin are identical and not empty; two *)
(* empty sets score 0.                                                      *)
C5_JaccardOneIffIdenticalNonEmpty ==
    JaccardScored =>
        \A k \in TargetPositions : \A b \in BinIndexes :
            LET P == PredIds(k, num_bins - 1 - b)
                G == ComparedGroup(k, b)
            IN  /\ JaccardOf(k, b) = SetJaccard(P, G)
                /\ InUnitInterval(JaccardOf(k, b))
                /\ (JaccardOf(k, b) = Rat(1, 1)) <=> (P = G /\ P # {})
                /\ (P = {} /\ G = {}) => JaccardOf(k, b) = Rat(0, 1)

\* one target with an identical non-empty pair, a partly overlapping pair
\* and a pair of empty sets
C5_Witness ==
    /\ JaccardScored
    /\ \E k \in TargetPositions :
          /\ TargetIds(k) # {}
          /\ \E b \in BinIndexes :
                /\ PredIds(k, num_bins - 1 - b) = ComparedGroup(k, b)
                /\ ComparedGroup(k, b) # {}
                /\ JaccardOf(k, b) = Rat(1, 1)
          /\ \E b \in BinIndexes :
                /\ PredIds(k, num_bins - 1 - b) = {}
                /\ ComparedGroup(k, b) = {}
                /\ JaccardOf(k, b) = Rat(0, 1)
    /\ \E k \in TargetPositions : \E b \in BinIndexes :
          /\ RLess(Rat(0, 1), JaccardOf(k, b))
          /\ RLess(JaccardOf(k, b), Rat(1, 1))

(* C6: whenever the ground-truth quantile group compared at an output bin   *)
(* is empty, the recorded recall of the bin is exactly 1.0 and the recorded *)
(* precision exactly 0.0, whether the predicted group is empty or not.      *)
C6_EmptyGroundTruthPolicy ==
    JaccardScored =>
        \A k \in TargetPositions : \A b \in BinIndexes :
            ComparedGroup(k, b) = {} =>
                /\ RecallOf(k, b) = Rat(1, 1)
                /\ PrecisionOf(k, b) = Rat(0, 1)

\* an empty ground-truth group met once by a non-empty and once by an empty
\* predicted group, in a target that has samples
C6_Witness ==
    /\ JaccardScored
    /\ \E k \in TargetPositions :
          /\ TargetIds(k) # {}
          /\ \E b \in BinIndexes :
                /\ ComparedGroup(k, b) = {}
                /\ PredIds(k, num_bins - 1 - b) # {}
                /\ RecallOf(k, b) = Rat(1, 1)
          /\ \E b \in BinIndexes :
                /\ ComparedGroup(k, b) = {}
                /\ PredIds(k, num_bins - 1 - b) = {}
                /\ PrecisionOf(k, b) = Rat(0, 1)

\* the partition rule for group q of a threshold list t, on error e
RuleGroup(q, e, t) ==
    IF q = 0 THEN RLeq(Rat(e, 1), t[1])
    ELSE IF q = Len(t) THEN RLess(t[Len(t)], Rat(e, 1))
    ELSE RLess(t[q], Rat(e, 1)) /\ RLeq(Rat(e, 1), t[q + 1])

BuiltGroup(k, q) == SeqToSet(BuiltGroups(k)[q + 1])

(* C8: with the Q-1 thresholds of a target, which are non-decreasing, the   *)
(* quantile partitioner builds Q groups; an id is in group 0 iff its error  *)
(* is <= t[0], in interior group q iff t[q-1] < error <= t[q], in the final *)
(* group iff error > t[last]; every id of the target is in exactly one      *)
(* group, so the groups are pairwise disjoint and cover the target's ids,   *)
(* also when thresholds are equal.                                          *)
C8_QuantilePartition ==
    (JaccardScored /\ ~combine_middle_bins) =>
        \A k \in TargetPositions :
            LET t == RecordedThresholds(k)
                Q == original_num_bins
            IN  /\ Len(t) = Q - 1
                /\ Len(BuiltGroups(k)) = Q
                /\ TargetIds(k) # {} =>
                      \A i \in 1..(Len(t) - 1) : RLeq(t[i], t[i + 1])
                /\ \A q \in 0..(Q - 1) :
                      BuiltGroup(k, q) =
                          {id \in TargetIds(k) : RuleGroup(q, IdError(k, id), t)}
                /\ \A id \in TargetIds(k) :
                      Cardinality({q \in 0..(Q - 1) : id \in BuiltGroup(k, q)}) = 1
                /\ \A q1, q2 \in 0..(Q - 1) :
                      q1 # q2 => BuiltGroup(k, q1) \cap BuiltGroup(k, q2) = {}
                /\ UNION {BuiltGroup(k, q) : q \in 0..(Q - 1)} = TargetIds(k)

\* tied thresholds: every id of a target with several samples falls into
\* group 0 and the interior group is empty
C8_Witness ==
    /\ JaccardScored /\ ~combine_middle_bins
    /\ original_num_bins = 3
    /\ \E k \in TargetPositions :
          /\ Cardinality(TargetIds(k)) >= 2
          /\ RecordedThresholds(k)[1] = RecordedThresholds(k)[2]
          /\ BuiltGroup(k, 0) = TargetIds(k)
          /\ BuiltGroup(k, 1) = {}

\* the Q-way partition of the target at position k, middle bins not combined
NonCombinedGroups(k) ==
    LET te == true_errors_ti(fold_data.errors, targets[k], uncertainty_type)
    IN  key_groups(te, quantile_thresholds(te, original_num_bins, FALSE))

(* C9: with combine_middle_bins the quantile partitioner over Q >= 2        *)
(* quantile bins builds exactly 3 groups that cover the target's ids; the   *)
(* first equals the first group and the last equals the last group of the   *)
(* non-combined Q-way partition; for Q = 2 the middle group is empty.       *)
C9_CombinedPartition ==
    (JaccardScored /\ combine_middle_bins) =>
        \A k \in TargetPositions :
            LET plain == NonCombinedGroups(k)
            IN  /\ Len(BuiltGroups(k)) = 3
                /\ Len(plain) = original_num_bins
                /\ UNION {BuiltGroup(k, q) : q \in 0..2} = TargetIds(k)
                /\ BuiltGroup(k, 0) = SeqToSet(plain[1])
                /\ BuiltGroup(k, 2) = SeqToSet(plain[Len(plain)])
                /\ original_num_bins = 2 => BuiltGroup(k, 1) = {}

\* four quantile bins combined into three groups that all hold a sample,
\* the middle one standing for the two interior groups of the four
C9_Witness ==
    /\ JaccardScored /\ combine_middle_bins
    /\ original_num_bins = 4
    /\ \E k \in TargetPositions :
          /\ \A q \in 0..2 : BuiltGroup(k, q) # {}
          /\ BuiltGroup(k, 1) =
                 SeqToSet(NonCombinedGroups(k)[2]) \cup SeqToSet(NonCombinedGroups(k)[3])

----------------------------------------------------------------------------
(* What evaluate() of the Jaccard handler returned, against the sample table *)

Returned == pc = "done"

Table == bin_predictions[model]

\* the ids of fold f, target position k, with raw predicted bin label q
PredIdsIn(f, k, q) ==
    {Table[i]["uid"] : i \in {j \in 1..Len(Table) :
        /\ Table[j][FoldColumn] = f
        /\ Table[j]["target_idx"] = targets[k]
        /\ Table[j][BinsColumn(uncertainty_type)] = q}}

\* raw quantile group q of fold f, target position k, in the order built
RawGroupIn(f, k, q) ==
    LET fold_errors == extract_fold_data(Table, f, uncertainty_type).errors
        te == true_errors_ti(fold_errors, targets[k], uncertainty_type)
    IN  SeqToSet(key_groups(te, quantile_thresholds(te, original_num_bins,
                                                    combine_middle_bins))[q + 1])

\* raw predicted bin j against raw quantile group j
RawJaccard(f, k, j) == SetJaccard(PredIdsIn(f, k, j), RawGroupIn(f, k, j))

\* the value stored under the (model, uncertainty type) key of a returned dict
StoredIn(dict) ==
    dict[CHOOSE i \in 1..Len(dict) : dict[i][1] = ResultKey(model, uncertainty_type)][2]

(* C7: in bin_wise_jaccard the predicted groups and the quantile groups are *)
(* reversed alike, so output index b compares raw predicted bin             *)
(* num_bins-1-b with raw quantile group num_bins-1-b and nothing else       *)
(* (index 0 is the worst bin); and evaluate() of the Jaccard handler merges *)
(* the folds without reversing again: what it returns for output index b    *)
(* holds, fold after fold, the values of raw bin num_bins-1-b.              *)
C7_AlignedReversal ==
    /\ JaccardScored =>
          \A k \in TargetPositions : \A b \in BinIndexes :
              LET j == num_bins - 1 - b
              IN  /\ ComparedPred(k, b) = PredIds(k, j)
                  /\ ComparedGroup(k, b) = BuiltGroup(k, j)
                  /\ JaccardOf(k, b) = SetJaccard(PredIds(k, j), BuiltGroup(k, j))
    /\ (Returned /\ handler = "jaccard") =>
          \A b \in BinIndexes :
              LET j == num_bins - 1 - b
                  nt == Len(targets)
              IN  /\ StoredIn(returned["Jaccard targets seperated"])[b + 1] =
                         [n \in 1..(num_folds * nt) |->
                             RawJaccard((n - 1) \div nt, ((n - 1) % nt) + 1, j)]
                  /\ StoredIn(returned["Jaccard All"])[b + 1] =
                         [n \in 1..num_folds |->
                             np_mean([k \in 1..nt |-> RawJaccard(n - 1, k, j)])]
                  /\ \A k \in TargetPositions :
                         StoredIn(returned["all jacc concat bins targets sep all"][k])
                                 [b + 1] =
                             [n \in 1..num_folds |-> RawJaccard(n - 1, k, j)]

\* evaluate() has returned over three bins; in both folds some target's worst
\* bin scores differently from its best bin, once with a partial overlap
C7_Witness ==
    /\ Returned /\ handler = "jaccard"
    /\ num_bins = 3
    /\ \A f \in 0..(num_folds - 1) : \E k \in TargetPositions :
          RawJaccard(f, k, num_bins - 1) # RawJaccard(f, k, 0)
    /\ \E k \in TargetPositions :
          LET worst == StoredIn(returned["all jacc concat bins targets sep all"][k])[1]
          IN  \E n \in 1..Len(worst) :
                  RLess(Rat(0, 1), worst[n]) /\ RLess(worst[n], Rat(1, 1))

----------------------------------------------------------------------------
(* What the mean-error claims speak of *)

ErrorScored == handler = "error" /\ pc = "accumulate_fold_result"

\* the error_scaling_factor the call runs with
Factor ==
    IF "error_scaling_factor" \in DOMAIN kwargs THEN kwargs.error_scaling_factor
    ELSE Rat(1, 1)

\* the sum of error * s over a set of rows
RECURSIVE SumScaled(_, _)
SumScaled(rows, s) ==
    IF rows = {} THEN Rat(0, 1)
    ELSE LET i == CHOOSE i \in rows : TRUE
         IN  RAdd(RMul(Rat(RowError(i), 1), s), SumScaled(rows \ {i}, s))

\* the arithmetic mean of error * s over the ids of target k with bin label b
MeanScaled(k, b, s) == RDivInt(SumScaled(RowsOfBin(targets[k], b), s), Population(k, b))

FilledBins(k) == {b \in BinIndexes : Population(k, b) > 0}

RECURSIVE SumOfMeans(_, _, _)
SumOfMeans(k, bins, s) ==
    IF bins = {} THEN Rat(0, 1)
    ELSE LET b == CHOOSE b \in bins : TRUE
         IN  RAdd(MeanScaled(k, b, s), SumOfMeans(k, bins \ {b}, s))

\* the mean recorded for bin b of the target at position k: "all bins"[b]
\* lists the targets that have the bin filled, in target order
RecordedMean(k, b) ==
    fold_result["all bins"][b + 1][Cardinality({j \in 1..k : Population(j, b) > 0})]

RecordedTargetMean(k) == scorer_locals.all_target_error[k]

\* x times s, nan and None left as they are
Scaled(x, s) == IF IsNum(x) THEN RMul(x, s) ELSE x

\* the same fold scored with error_scaling_factor 1.0
UnscaledRun ==
    bin_wise_errors(fold_data.errors, fold_data.bins, num_bins, targets,
                    uncertainty_type, Rat(1, 1))

(* C10: in bin_wise_errors the mean recorded for a non-empty bin b of a     *)
(* target is the arithmetic mean of error * error_scaling_factor over       *)
(* exactly the ids with predicted label b; with factor s every per-bin      *)
(* mean, the per-target means and the overall summaries are s times what    *)
(* factor 1.0 gives; bins [0,0,1] with errors [2,4,10] give bin means 3.0   *)
(* and 10.0 and the per-target mean 6.5.                                    *)
C10_BinMeansAndScaling ==
    ErrorScored =>
        LET s == Factor
            plain == UnscaledRun
        IN  /\ \A k \in TargetPositions : \A b \in FilledBins(k) :
                  RecordedMean(k, b) = MeanScaled(k, b, s)
            /\ \A b \in BinIndexes :
                  Len(fold_result["all bins"][b + 1]) =
                      Cardinality({k \in TargetPositions : b \in FilledBins(k)})
            /\ \A k \in TargetPositions :
                  FilledBins(k) # {} =>
                      RecordedTargetMean(k) =
                          RDivInt(SumOfMeans(k, FilledBins(k), s),
                                  Cardinality(FilledBins(k)))
            /\ plain.raised = ""
            /\ \A b \in BinIndexes :
                  /\ \A n \in 1..Len(fold_result["all bins"][b + 1]) :
                        fold_result["all bins"][b + 1][n] =
                            Scaled(plain.result["all bins"][b + 1][n], s)
                  /\ fold_result["mean all bins"][b + 1] =
                        Scaled(plain.result["mean all bins"][b + 1], s)
            /\ \A k \in TargetPositions :
                  RecordedTargetMean(k) = Scaled(plain.locals.all_target_error[k], s)
            /\ fold_result["mean all targets"] =
                  Scaled(plain.result["mean all targets"], s)
            /\ (bin_predictions[model] = ExampleTable /\ s = Rat(1, 1)) =>
                  /\ RecordedMean(1, 0) = Rat(3, 1)
                  /\ RecordedMean(1, 1) = Rat(10, 1)
                  /\ RecordedTargetMean(1) = Rat(13, 2)

\* the example scored with factor 2: every mean twice the example's
C10_Witness ==
    /\ ErrorScored
    /\ bin_predictions[model] = ExampleTable
    /\ Factor = Rat(2, 1)
    /\ RecordedMean(1, 0) = Rat(6, 1)
    /\ RecordedMean(1, 1) = Rat(20, 1)
    /\ RecordedTargetMean(1) = Rat(13, 1)

----------------------------------------------------------------------------
(* get_mean_errors: ErrorEvaluationHandler.evaluate() *)

ErrorReturned == handler = "error" /\ pc = "done"

\* the rows of the model's table with fold f, target position k, bin label b
TableRows(f, k, b) ==
    {i \in 1..Len(Table) :
        /\ Table[i][FoldColumn] = f
        /\ Table[i]["target_idx"] = targets[k]
        /\ Table[i][BinsColumn(uncertainty_type)] = b}

\* the targets that have bin b filled in the fold being scored
TargetsFilling(b) == {k \in TargetPositions : Population(k, b) > 0}

RECURSIVE SumOverTargets(_, _, _)
SumOverTargets(ks, b, s) ==
    IF ks = {} THEN Rat(0, 1)
    ELSE LET k == CHOOSE k \in ks : TRUE
         IN  RAdd(MeanScaled(k, b, s), SumOverTargets(ks \ {k}, b, s))

(* C11: bin_wise_errors never turns an empty bin into 0: the summary of a   *)
(* target is the mean of its non-empty bins only, the cross-target mean of  *)
(* a bin counts only the targets that have it filled, and a bin empty for   *)
(* every target is None in 'mean all bins'; get_mean_errors carries that    *)
(* None unchanged into the per-fold list of the bin in what it returns.     *)
C11_EmptyBinsStayEmpty ==
    /\ ErrorScored =>
          /\ \A k \in TargetPositions :
                 FilledBins(k) # {} =>
                     RecordedTargetMean(k) =
                         RDivInt(SumOfMeans(k, FilledBins(k), Factor),
                                 Cardinality(FilledBins(k)))
          /\ \A b \in BinIndexes :
                 /\ Len(fold_result["all bins"][b + 1]) = Cardinality(TargetsFilling(b))
                 /\ fold_result["mean all bins"][b + 1] =
                        IF TargetsFilling(b) = {} THEN None
                        ELSE RDivInt(SumOverTargets(TargetsFilling(b), b, Factor),
                                     Cardinality(TargetsFilling(b)))
    /\ ErrorReturned =>
          \A f \in 0..(num_folds - 1) : \A b \in BinIndexes :
              LET stored == StoredIn(returned["all mean error bins nosep"])
                                    [num_bins - b][f + 1]
              IN  /\ (\A k \in TargetPositions : TableRows(f, k, b) = {}) <=>
                         stored = None
                  /\ stored # Rat(0, 1)

\* evaluate() has returned a bin whose per-fold list holds None for the first
\* fold and a mean for the second
C11_Witness ==
    /\ ErrorReturned
    /\ \E b \in BinIndexes :
           LET stored == StoredIn(returned["all mean error bins nosep"])[b + 1]
           IN  stored[1] = None /\ IsNum(stored[2])

\* what bin_wise_errors gives for fold f of the model's table
FoldScore(f) ==
    LET d == extract_fold_data(Table, f, uncertainty_type)
    IN  bin_wise_errors(d.errors, d.bins, num_bins, targets, uncertainty_type,
                        Factor).result

\* the errors of raw bin j of target position k in one fold's score, in row
\* order; nothing when the bin is empty
BinErrors(score, k, j) ==
    Flatten(score["all bins concatenated targets seperated"][k][j + 1])

(* C12: every bin-indexed output of get_mean_errors is in display order:    *)
(* index 0 holds raw bin num_bins-1 and index num_bins-1 holds raw bin 0,   *)
(* for the three outputs indexed by the (model, uncertainty type) key and,  *)
(* target by target, for both target-separated outputs; what a bin holds    *)
(* keeps the order in which the folds and rows contributed it.              *)
C12_ErrorOutputsReversed ==
    ErrorReturned =>
        LET score == list([n \in 1..num_folds |-> FoldScore(n - 1)])
            nt == Len(targets)
        IN  \A b \in BinIndexes :
                LET j == num_bins - 1 - b
                IN  /\ StoredIn(returned["all mean error bins nosep"])[b + 1] =
                           [n \in 1..num_folds |-> score[n]["mean all bins"][j + 1]]
                    /\ StoredIn(returned["all mean error bins targets sep"])[b + 1] =
                           Flatten([n \in 1..num_folds |-> score[n]["all bins"][j + 1]])
                    /\ StoredIn(returned["all error concat bins targets nosep"])[b + 1] =
                           Flatten([n \in 1..(num_folds * nt) |->
                                       BinErrors(score[((n - 1) \div nt) + 1],
                                                 ((n - 1) % nt) + 1, j)])
                    /\ \A k \in TargetPositions :
                           /\ StoredIn(returned["all error concat bins targets sep foldwise"]
                                               [k])[b + 1] =
                                  Flatten([n \in 1..num_folds |->
                                      score[n]["all bins concatenated targets seperated"]
                                              [k][j + 1]])
                           /\ StoredIn(returned["all error concat bins targets sep all"]
                                               [k])[b + 1] =
                                  Flatten([n \in 1..num_folds |->
                                              BinErrors(score[n], k, j)])

\* evaluate() has returned over three bins: index 0 of a target-separated
\* output holds two different errors of raw bin 2, the later fold's last,
\* and raw bin 0 holds something else
C12_Witness ==
    /\ ErrorReturned
    /\ num_bins = 3
    /\ \E k \in TargetPositions :
           LET stored == StoredIn(returned["all error concat bins targets sep all"][k])
           IN  /\ Len(stored[1]) = 2
               /\ RLess(stored[1][1], stored[1][2])
               /\ stored[3] # <<>>
               /\ stored[3] # stored[1]
    /\ StoredIn(returned["all mean error bins nosep"])[1] #
           StoredIn(returned["all mean error bins nosep"])[3]

----------------------------------------------------------------------------
(* evaluate_bounds: BoundEvaluationHandler.evaluate() *)

BoundReturned == handler = "bound" /\ pc = "done"

\* what bin_wise_bound_eval gives for fold f of the model's table
BoundFoldScore(f) ==
    Bound_process_single_fold(Bound_extract_fold_data(Table, f, uncertainty_type),
                              uncertainty_type, kwargs, model, targets,
                              num_bins).result

(* C13: every bin-indexed output of evaluate_bounds is in display order:    *)
(* index 0 holds raw bin num_bins-1 and index num_bins-1 holds raw bin 0,   *)
(* in 'Error Bounds All', in 'all_bound_percents_notargetsep' and, target   *)
(* by target, in both target-separated errorbound outputs.                  *)
C13_BoundOutputsReversed ==
    BoundReturned =>
        LET score == list([n \in 1..num_folds |-> BoundFoldScore(n - 1)])
        IN  \A b \in BinIndexes :
                LET j == num_bins - 1 - b
                IN  /\ StoredIn(returned["Error Bounds All"])[b + 1] =
                           [n \in 1..num_folds |-> score[n]["mean all bins"][j + 1]]
                    /\ StoredIn(returned["all_bound_percents_notargetsep"])[b + 1] =
                           Flatten([n \in 1..num_folds |-> score[n]["mean all"][j + 1]])
                    /\ \A k \in TargetPositions :
                           LET contributed ==
                                   Flatten([n \in 1..num_folds |->
                                       score[n]["all bins concatenated targets seperated"]
                                               [k][j + 1]])
                           IN  /\ StoredIn(returned[
                                       "all errorbound concat bins targets sep foldwise"]
                                       [k])[b + 1] = contributed
                               /\ StoredIn(returned[
                                       "all errorbound concat bins targets sep all"]
                                       [k])[b + 1] = contributed

----------------------------------------------------------------------------
(* evaluate() of the three handlers: the shape of what it returns *)

\* the returned outputs that hold, per bin, one value per fold
MeanOverFoldsOutputs ==
    CASE handler = "jaccard" -> {"Jaccard All", "Recall All", "Precision All"}
      [] handler = "error" -> {"all mean error bins nosep"}
      [] handler = "bound" -> {"Error Bounds All"}

\* the other returned outputs indexed by the (model, uncertainty type) key
ConcatenatedOutputs ==
    CASE handler = "jaccard" -> {"Jaccard targets seperated", "Recall targets seperated",
                                 "Precision targets seperated"}
      [] handler = "error" -> {"all mean error bins targets sep",
                               "all error concat bins targets nosep"}
      [] handler = "bound" -> {"all_bound_percents_notargetsep"}

\* the returned target-separated output that holds, per bin, the folds'
\* contributions one after the other
FoldwiseOutput ==
    CASE handler = "jaccard" -> "all jacc concat bins targets sep foldwise"
      [] handler = "error" -> "all error concat bins targets sep foldwise"
      [] handler = "bound" -> "all errorbound concat bins targets sep foldwise"

\* the returned target-separated output that holds, per bin, every value
AllOutput ==
    CASE handler = "jaccard" -> "all jacc concat bins targets sep all"
      [] handler = "error" -> "all error concat bins targets sep all"
      [] handler = "bound" -> "all errorbound concat bins targets sep all"

(* C14: when evaluate() of a handler returns, every accumulator merged into *)
(* the result has num_bins entries along the bin axis and len(targets)      *)
(* entries along the target axis, every per-bin 'mean over folds' list has  *)
(* num_folds elements, and every target-separated fold-wise list (per       *)
(* target, per bin) has one contribution per fold, also when a bin of a     *)
(* target is empty in some fold.                                            *)
C14_AccumulatorShapes ==
    Returned =>
        /\ \A name \in MeanOverFoldsOutputs \cup ConcatenatedOutputs :
               Len(StoredIn(returned[name])) = num_bins
        /\ \A name \in MeanOverFoldsOutputs : \A b \in BinIndexes :
               Len(StoredIn(returned[name])[b + 1]) = num_folds
        /\ \A name \in {FoldwiseOutput, AllOutput} :
               /\ Len(returned[name]) = Len(targets)
               /\ \A k \in TargetPositions :
                      Len(StoredIn(returned[name][k])) = num_bins
        /\ \A k \in TargetPositions : \A b \in BinIndexes :
               Len(StoredIn(returned[FoldwiseOutput][k])[b + 1]) = num_folds

\* the returned output that holds, per bin, the folds' cross-target means
MeanOutput ==
    CASE handler = "jaccard" -> "Jaccard All"
      [] handler = "error" -> "all mean error bins nosep"
      [] handler = "bound" -> "Error Bounds All"

\* what fold f contributes to the list of MeanOutput at output index b
MeanContribution(f, b) ==
    CASE handler = "jaccard" ->
            np_mean([k \in 1..Len(targets) |-> RawJaccard(f, k, num_bins - 1 - b)])
      [] handler = "error" -> FoldScore(f)["mean all bins"][num_bins - b]
      [] handler = "bound" -> BoundFoldScore(f)["mean all bins"][num_bins - b]

\* what fold f contributes to the fold-wise list of target position k at
\* output index b: one element
FoldwiseContribution(f, k, b) ==
    CASE handler = "jaccard" -> RawJaccard(f, k, num_bins - 1 - b)
      [] handler = "error" -> BinErrors(FoldScore(f), k, num_bins - 1 - b)
      [] handler = "bound" ->
            BoundFoldScore(f)["all bins concatenated targets seperated"][k][b + 1][1]

(* C15: the folds are accumulated in ascending fold id: in every fold-wise  *)
(* list of what evaluate() returns, the element at position f is what fold  *)
(* f contributed, for f in 0..num_folds-1, in all three handlers and for    *)
(* every (model, uncertainty type) pair.                                    *)
C15_PositionIsFold ==
    Returned =>
        \A f \in 0..(num_folds - 1) : \A b \in BinIndexes :
            /\ LET stored == StoredIn(returned[MeanOutput])[b + 1]
               IN  /\ f + 1 \in DOMAIN stored
                   /\ stored[f + 1] = MeanContribution(f, b)
            /\ \A k \in TargetPositions :
                   LET stored == StoredIn(returned[FoldwiseOutput][k])[b + 1]
                   IN  /\ f + 1 \in DOMAIN stored
                       /\ stored[f + 1] = FoldwiseContribution(f, k, b)

----------------------------------------------------------------------------
(* BoundEvaluationHandler.evaluate() without its required inputs *)

\* the bound tables given to the call, None when there are none
GivenBounds ==
    IF "estimated_bounds" \in DOMAIN kwargs THEN kwargs.estimated_bounds ELSE None

\* no bound table at all, or none (or one without rows) for some model
BoundTableMissingOrEmpty ==
    \/ GivenBounds \in {None, <<>>}
    \/ \E n \in DOMAIN bin_predictions :
           \/ BoundsKey(n) \notin DOMAIN GivenBounds
           \/ GivenBounds[BoundsKey(n)] = <<>>

ModelNameMissingOrEmpty == "" \in DOMAIN bin_predictions

\* nothing has been scored, accumulated, aggregated or returned
NoFoldProcessed ==
    /\ fold_result = <<>>
    /\ pc \notin {"accumulate_fold_result", "done"}
    /\ fold = 0
    /\ returned = <<>>
    /\ allocated = 0
    /\ calls = <<>>
    /\ results # <<>> =>
           /\ results["all_bound_percents"] = <<>>
           /\ results["all_bound_percents_notargetsep"] = <<>>

----------------------------------------------------------------------------
(* quantile_binning_and_est_errors: its failures *)

BinningCall == handler = ""

\* the call has come back with a value
BinningReturned == BinningCall /\ pc = "done"

(* C17: quantile_binning_and_est_errors called with type "error-wise", the  *)
(* value its validation accepts, fails with NotImplementedError: it never   *)
(* returns a result, empty or not, and ends with no other outcome.          *)
C17_ErrorWiseNotImplemented ==
    (BinningCall /\ type = "error-wise" /\ Len(errors) = Len(uncertainties)) =>
        /\ ~BinningReturned
        /\ returned = <<>>
        /\ pc = "raised" => raised = "NotImplementedError"

\* the partition types the function documents as valid
ValidPartitionTypes == {"quantile", "error-wise"}

\* the call is past its entry
BinningStarted == BinningCall /\ pc # "quantile_binning_and_est_errors"

(* C18: quantile_binning_and_est_errors fails with ValueError whenever      *)
(* len(errors) # len(uncertainties) and whenever type is not a valid        *)
(* partition type; the error comes before the isotonic regression is        *)
(* fitted, and no thresholds are built or returned.                         *)
C18_ValidationFailsFast ==
    (BinningStarted /\ (Len(errors) # Len(uncertainties)
                           \/ type \notin ValidPartitionTypes)) =>
        /\ pc = "raised"
        /\ raised = "ValueError"
        /\ ir = <<>>
        /\ uncert_boundaries = <<>>
        /\ estimated_errors = <<>>
        /\ returned = <<>>

\* lists of equal length with a type the second branch tests for: rejected
C18_Witness ==
    /\ BinningStarted
    /\ type = "error_wise"
    /\ Len(errors) = Len(uncertainties)
    /\ Len(errors) > 1
    /\ raised = "ValueError"

----------------------------------------------------------------------------
(* Bin grouping: ids held by one of the two per-target maps only *)

\* the rows a scorer selects for the target at position k
MaskedRows(k) ==
    {i \in 1..Len(fold_data.errors) : fold_data.errors[i]["target_idx"] = targets[k]}

\* the ids of the target's bin-label map and of its error map
LabelIds(k) == {fold_data.bins[i]["uid"] : i \in MaskedRows(k)}
ErrorIds(k) == {fold_data.errors[i]["uid"] : i \in MaskedRows(k)}

\* the scorer has come back, with a result or with an exception
ScorerEnded == pc \in {"accumulate_fold_result", "raised"}

(* C19: in each of the three scorers an id held by one of the two per-      *)
(* target maps (bin labels, errors) and not by the other makes the scorer   *)
(* fail with a lookup error: no scorer completes over such an id, be it a   *)
(* label without an error or an error without a label.                      *)
C19_UnmatchedIdRaises ==
    (ScorerEnded /\ \E k \in TargetPositions : LabelIds(k) # ErrorIds(k)) =>
        /\ pc = "raised"
        /\ raised \in {"IndexError", "KeyError"}

----------------------------------------------------------------------------
(* FoldDataProcessor.extract_fold_data *)

\* the positions of the table's rows that belong to fold f, ascending
RowsOfFold(table, f) == Ascending({i \in 1..Len(table) : table[i][FoldColumn] = f})

\* row i of the table with the given columns only
Reduced(table, i, columns) == [c \in columns |-> table[i][c]]

\* the two slices are the rows of fold f, in table order, with their columns
SlicesOf(data, table, f, utype) ==
    LET rows == RowsOfFold(table, f)
    IN  /\ data.errors =
               [n \in 1..Len(rows) |->
                   Reduced(table, rows[n], {"uid", "target_idx", ErrorColumn(utype)})]
        /\ data.bins =
               [n \in 1..Len(rows) |->
                   Reduced(table, rows[n], {"uid", "target_idx", BinsColumn(utype)})]

(* C20: extract_fold_data(records, fold, type) returns an errors slice and  *)
(* a bins slice that hold exactly the rows of records whose fold is the     *)
(* given fold, all of them and no others, in the table's row order in both  *)
(* slices, reduced to uid, target_idx and the type's error or bin-label     *)
(* column; the input table is left as it was.                               *)
C20_ExtractFoldData ==
    [][pc = "next_fold" /\ pc' = "process_single_fold" =>
          /\ SlicesOf(fold_data', bin_predictions[model], fold, uncertainty_type)
          /\ bin_predictions' = bin_predictions]_vars

\* extracted: the first and the last row of the table, with a row of
\* another fold between them, for the second uncertainty type
C20_Witness ==
    /\ pc = "process_single_fold"
    /\ uncertainty_type = OtherTypeName
    /\ Len(fold_data.errors) = 2
    /\ fold_data.errors[1]["uid"] = 1
    /\ fold_data.bins[2]["uid"] = MaxSamples
    /\ SlicesOf(fold_data, bin_predictions[model], fold, uncertainty_type)

----------------------------------------------------------------------------
(* What evaluate() returns for one (model, uncertainty_type) pair *)

\* the (model, uncertainty_type) pairs the call asks for
RequestedPairs ==
    {<<m, uncertainty_pairs[i][1]>> :
        m \in DOMAIN bin_predictions, i \in 1..Len(uncertainty_pairs)}

\* the fold accumulator of pair (m, t) after the folds f..num_folds-1
RECURSIVE FoldsInto(_, _, _, _)
FoldsInto(acc, m, t, f) ==
    IF f >= num_folds THEN acc
    ELSE LET data == extract_fold_data(bin_predictions[m], f, t)
         IN  CASE handler = "jaccard" ->
                    FoldsInto(Jaccard_accumulate_fold_result(acc,
                                  Jaccard_process_single_fold(data, t, targets, num_bins,
                                      original_num_bins, combine_middle_bins,
                                      "nan").result,
                                  targets),
                              m, t, f + 1)
               [] handler = "error" ->
                    FoldsInto(Error_accumulate_fold_result(acc,
                                  Error_process_single_fold(data, t, kwargs, targets,
                                      num_bins).result,
                                  targets),
                              m, t, f + 1)

\* the result of evaluate() had (m, t) been the only pair asked for
PairAlone(m, t) ==
    CASE handler = "jaccard" ->
            Jaccard_finalize_results(Jaccard_aggregate_results(
                Jaccard_initialize_results(targets), m, t,
                FoldsInto(Jaccard_initialize_fold_accumulator(num_bins, targets),
                          m, t, 0)))
      [] handler = "error" ->
            Error_finalize_results(Error_aggregate_results(
                Error_initialize_results(targets), m, t,
                FoldsInto(Error_initialize_fold_accumulator(num_bins, targets),
                          m, t, 0)))

\* the outputs that are one dict per target, and the key-indexed dicts of a
\* result as <<output name, target position or 0>>
TargetSeparatedOutputs ==
    {"all jacc concat bins targets sep foldwise", "all jacc concat bins targets sep all",
     "all error concat bins targets sep foldwise",
     "all error concat bins targets sep all",
     "all errorbound concat bins targets sep foldwise",
     "all errorbound concat bins targets sep all"}

KeyedDicts(result) ==
    {<<name, 0>> : name \in DOMAIN result \ TargetSeparatedOutputs} \cup
    {<<name, k>> : name \in DOMAIN result \cap TargetSeparatedOutputs,
                   k \in 1..Len(targets)}

DictAt(result, d) == IF d[2] = 0 THEN result[d[1]] ELSE result[d[1]][d[2]]

HasKey(dict, key) == \E i \in 1..Len(dict) : dict[i][1] = key

Entry(dict, key) == dict[CHOOSE i \in 1..Len(dict) : dict[i][1] = key][2]

(* C21: after evaluate() over several models and uncertainty pairs every    *)
(* key-indexed output holds exactly one entry per distinct requested        *)
(* (model, uncertainty_type) pair, under model + " " + uncertainty_type     *)
(* with the type the first element of the pair, and the entry holds the     *)
(* data of that pair: no two distinct pairs share or overwrite an entry.    *)
C21_OneEntryPerPair ==
    Returned =>
        \A d \in KeyedDicts(returned) :
            /\ Len(DictAt(returned, d)) = Cardinality(RequestedPairs)
            /\ \A p \in RequestedPairs :
                   /\ HasKey(DictAt(returned, d), ResultKey(p[1], p[2]))
                   /\ Entry(DictAt(returned, d), ResultKey(p[1], p[2])) =
                          Entry(DictAt(PairAlone(p[1], p[2]), d), ResultKey(p[1], p[2]))

----------------------------------------------------------------------------
(* The lifecycle of one evaluate() run *)

\* the (model, pair) combinations of the call, those already begun, and the
\* scorer invocations made so far: num_folds for every pair that is through,
\* `fold` for the pair at hand, one more while a fold's result waits to be
\* accumulated
TotalPairs == Cardinality(DOMAIN bin_predictions) * Len(uncertainty_pairs)
PairsStarted == TotalPairs - Len(remaining)
ScorerCalls ==
    (IF PairsStarted = 0 THEN 0 ELSE (PairsStarted - 1) * num_folds + fold) +
    (IF pc = "accumulate_fold_result" THEN 1 ELSE 0)

\* the fields of `results` that are one dict per target
TargetSeparatedInternal ==
    {"all_concat_jacc_bins_target_sep_foldwise", "all_concat_jacc_bins_target_sep_all",
     "all_concat_error_bins_target_sep_foldwise", "all_concat_error_bins_target_sep_all",
     "all_concat_errorbound_bins_target_sep_foldwise",
     "all_concat_errorbound_bins_target_sep_all"}

\* results with no key in any dict; a fold accumulator with one empty list
\* per bin (per target and bin where the targets are kept apart)
FreshResults(res) ==
    \A name \in DOMAIN res :
        IF name \in TargetSeparatedInternal
        THEN Len(res[name]) = Len(targets) /\ \A t \in 1..Len(targets) : res[name][t] = <<>>
        ELSE res[name] = <<>>

FreshAccumulator(acc) ==
    \A name \in DOMAIN acc :
        CASE name \in {"fold_mean_targets", "fold_mean_targets_recall",
                       "fold_mean_targets_precision"} ->
                acc[name] = <<>>
          [] name \in {"fold_all_bins_concat_targets_sep_foldwise",
                       "fold_all_bins_concat_targets_sep_all"} ->
                /\ Len(acc[name]) = Len(targets)
                /\ \A t \in 1..Len(targets) :
                       /\ Len(acc[name][t]) = num_bins
                       /\ \A b \in 1..num_bins : acc[name][t][b] = <<>>
          [] OTHER ->
                /\ Len(acc[name]) = num_bins
                /\ \A b \in 1..num_bins : acc[name][b] = <<>>

LifecycleStep ==
    \/ /\ pc = "evaluate" /\ pc' = "next_pair"
       /\ PairsStarted = 0
       /\ FreshResults(results')
    \/ /\ pc = "next_pair" /\ pc' = "next_fold"
       /\ PairsStarted < TotalPairs
       /\ uncertainty_type' =
             uncertainty_pairs[(PairsStarted % Len(uncertainty_pairs)) + 1][1]
       /\ PairsStarted % Len(uncertainty_pairs) # 0 => model' = model
       /\ PairsStarted % Len(uncertainty_pairs) = 0 /\ PairsStarted > 0 => model' # model
       /\ fold' = 0
       /\ FreshAccumulator(fold_accumulator')
       /\ results' = results
    \/ /\ pc = "next_fold" /\ pc' = "process_single_fold"
       /\ fold < num_folds /\ fold' = fold
       /\ fold_data' = extract_fold_data(bin_predictions[model], fold, uncertainty_type)
       /\ fold_accumulator' = fold_accumulator /\ results' = results
    \/ /\ pc = "process_single_fold" /\ pc' = "accumulate_fold_result"
       /\ fold' = fold /\ fold_data' = fold_data
       /\ fold_accumulator' = fold_accumulator /\ results' = results
    \/ /\ pc = "accumulate_fold_result" /\ pc' = "next_fold"
       /\ fold' = fold + 1
       /\ Len(fold_accumulator'["fold_mean_targets"]) = fold'
       /\ results' = results
    \/ /\ pc = "next_fold" /\ pc' = "next_pair"
       /\ fold = num_folds
       /\ Len(fold_accumulator["fold_mean_targets"]) = num_folds
       /\ \A name \in DOMAIN results' \ TargetSeparatedInternal :
              /\ HasKey(results'[name], ResultKey(model, uncertainty_type))
              /\ Len(results'[name]) <= PairsStarted
    \/ /\ pc = "next_pair" /\ pc' = "done"
       /\ PairsStarted = TotalPairs
       /\ returned = <<>> /\ returned' # <<>>
       /\ \A p \in RequestedPairs : \A d \in KeyedDicts(returned') :
              HasKey(DictAt(returned', d), ResultKey(p[1], p[2]))

\* the steps a run has taken when it is in the state at hand: one for the
\* initialisation, StepsPerPair for every pair that is through (create the
\* accumulator; extract, score, accumulate per fold; merge), one to finalize
StepsPerPair == 2 + 3 * num_folds
StepsTaken ==
    LET begun == 1 + (PairsStarted - 1) * StepsPerPair + 1 + 3 * fold
    IN  CASE pc = "evaluate" -> 0
          [] pc = "next_pair" -> 1 + PairsStarted * StepsPerPair
          [] pc = "next_fold" -> begun
          [] pc = "process_single_fold" -> begun + 1
          [] pc = "accumulate_fold_result" -> begun + 2
          [] pc = "done" -> 2 + TotalPairs * StepsPerPair
          [] OTHER -> 0 - 1

\* the run is not stuck: the statement it stands at can be executed, and
\* where that is the scorer, the scorer completes
NextStepEnabled ==
    CASE pc = "evaluate" -> ENABLED InitializeResults
      [] pc = "next_pair" -> ENABLED (NextPair \/ FinalizeResults)
      [] pc = "next_fold" -> ENABLED (ExtractFoldData \/ AggregateResults)
      [] pc = "process_single_fold" ->
            \A empty_quantile \in EmptyQuantileChoices :
                process_single_fold(empty_quantile).raised = ""
      [] pc = "accumulate_fold_result" -> ENABLED AccumulateFoldResult
      [] OTHER -> FALSE

\* only a step into "accumulate_fold_result" is a scorer invocation
CountStep ==
    ScorerCalls' =
        ScorerCalls +
        (IF pc = "process_single_fold" /\ pc' = "accumulate_fold_result" THEN 1 ELSE 0)

(* C22: one evaluate() run initialises the results once; takes the models   *)
(* in order and for each model the uncertainty pairs in order; for each     *)
(* creates a fresh fold accumulator, then extracts, scores and accumulates  *)
(* fold 0, 1, ..., num_folds-1 in that order and only then merges the       *)
(* accumulator into the results; finalizes once after every pair is merged; *)
(* makes exactly |models| * |pairs| * num_folds scorer invocations and      *)
(* terminates: every step is one step further in that order, the run is     *)
(* never stuck before it returns and cannot run on after it.                *)
C22_Lifecycle ==
    /\ [][LifecycleStep]_vars
    /\ [][CountStep]_vars
    /\ [](Returned => ScorerCalls = TotalPairs * num_folds)
    /\ [][StepsTaken' = StepsTaken + 1]_vars
    /\ [](StepsTaken <= 2 + TotalPairs * StepsPerPair)
    /\ [](Returned \/ NextStepEnabled)

C22_Witness ==
    /\ Returned
    /\ Cardinality(DOMAIN bin_predictions) = 2
    /\ Len(uncertainty_pairs) = 2
    /\ ScorerCalls = 4 * num_folds

----------------------------------------------------------------------------
(* Two evaluate() calls on one handler *)

\* what the result of call k reads as now: its dicts are those of container
\* calls[k].container, which hold what is in them at present
HeldResult(k) ==
    IF calls[k].container = allocated
    THEN CASE handler = "jaccard" -> Jaccard_finalize_results(results)
           [] handler = "error" -> Error_finalize_results(results)
           [] handler = "bound" -> Bound_finalize_results(results)
    ELSE calls[k].value

DictKeySet(dict) == {dict[i][1] : i \in 1..Len(dict)}

(* C23: evaluate() keeps no state across calls: a second call on the same   *)
(* handler with the same inputs returns a result equal to the first; what   *)
(* the second call returns holds the entries of its own pairs only, each    *)
(* as a call for that pair alone gives it; and a result the caller already  *)
(* holds is not changed by the later call.                                  *)
C23_NoStateAcrossCalls ==
    /\ \A k \in 1..Len(calls) : HeldResult(k) = calls[k].value
    /\ Returned =>
          /\ \A k \in 1..Len(calls) :
                 calls[k].uncertainty_pairs = uncertainty_pairs =>
                     returned = calls[k].value
          /\ \A d \in KeyedDicts(returned) :
                 /\ DictKeySet(DictAt(returned, d)) =
                        {ResultKey(p[1], p[2]) : p \in RequestedPairs}
                 /\ \A p \in RequestedPairs :
                        Entry(DictAt(returned, d), ResultKey(p[1], p[2])) =
                            Entry(DictAt(PairAlone(p[1], p[2]), d),
                                  ResultKey(p[1], p[2]))

\* the second call, made with the pairs of the first, has returned
C23_Witness ==
    /\ Returned
    /\ Len(calls) = 1
    /\ calls[1].uncertainty_pairs = uncertainty_pairs
    /\ returned = calls[1].value
    /\ returned # <<>>

----------------------------------------------------------------------------
(* C24: in bin_wise_jaccard, at every output bin whose ground-truth group   *)
(* is not empty, recall is |pred n gt| / |gt| and precision is 0.0 when the *)
(* predicted group is empty and |pred n gt| / |pred| otherwise: every       *)
(* division is by the size of a non-empty group, whichever of the two       *)
(* groups are empty.                                                        *)
C24_RecallPrecision ==
    JaccardScored =>
        \A k \in TargetPositions : \A b \in BinIndexes :
            LET P == PredIds(k, num_bins - 1 - b)
                G == ComparedGroup(k, b)
            IN  /\ IsNum(RecallOf(k, b)) /\ IsNum(PrecisionOf(k, b))
                /\ G # {} =>
                      /\ RecallOf(k, b) = Rat(Cardinality(P \cap G), Cardinality(G))
                      /\ P = {} => PrecisionOf(k, b) = Rat(0, 1)
                      /\ P # {} =>
                             PrecisionOf(k, b) = Rat(Cardinality(P \cap G), Cardinality(P))

\* one fold in which a non-empty ground-truth group meets an empty predicted
\* group, another meets a predicted group of a different size that it
\* overlaps, and an empty ground-truth group meets an empty predicted group
C24_Witness ==
    /\ JaccardScored
    /\ \E k \in TargetPositions : \E b \in BinIndexes :
          /\ ComparedGroup(k, b) # {}
          /\ PredIds(k, num_bins - 1 - b) = {}
          /\ PrecisionOf(k, b) = Rat(0, 1)
    /\ \E k \in TargetPositions : \E b \in BinIndexes :
          /\ Cardinality(ComparedGroup(k, b)) # Cardinality(PredIds(k, num_bins - 1 - b))
          /\ ComparedGroup(k, b) \cap PredIds(k, num_bins - 1 - b) # {}
          /\ PrecisionOf(k, b) # RecallOf(k, b)
    /\ \E k \in TargetPositions : \E b \in BinIndexes :
          /\ ComparedGroup(k, b) = {}
          /\ PredIds(k, num_bins - 1 - b) = {}

----------------------------------------------------------------------------
(* The quantile thresholds of one (fold, target) *)

\* the rows of the model's table in fold f with the target at position k
OwnRows(f, k) ==
    {i \in 1..Len(Table) :
        Table[i][FoldColumn] = f /\ Table[i]["target_idx"] = targets[k]}

TableError(i) == Table[i][ErrorColumn(uncertainty_type)]

\* the i-th smallest error of the rows R, i in 1..|R|
Smallest(R, i) ==
    CHOOSE v \in {TableError(r) : r \in R} :
        /\ Cardinality({r \in R : TableError(r) < v}) < i
        /\ i <= Cardinality({r \in R : TableError(r) <= v})

\* the j/Q quantile of the errors of the rows R by linear interpolation:
\* position h = (|R| - 1) * j / Q counted from 0, the value at floor(h) plus
\* the fraction of h times the step to the next value
LinearQuantile(R, j, Q) ==
    LET h == (Cardinality(R) - 1) * j
        below == Smallest(R, (h \div Q) + 1)
    IN  IF h % Q = 0 THEN Rat(below, 1)
        ELSE Rat(Q * below + (h % Q) * (Smallest(R, (h \div Q) + 2) - below), Q)

(* C25: the quantile thresholds bin_wise_jaccard uses under evaluate() are  *)
(* those of the errors of the fold and target at hand alone: the 1/Q, ...,  *)
(* (Q-1)/Q quantiles of those errors by linear interpolation, whatever the  *)
(* other folds and targets hold.  For one target with errors [1, 2, 3, 4],  *)
(* folds [0, 0, 1, 1] and num_bins = 2 the threshold is 1.5 in fold 0 and   *)
(* 3.5 in fold 1.                                                           *)
C25_ThresholdsPerFoldAndTarget ==
    JaccardScored =>
        /\ \A k \in TargetPositions :
               OwnRows(fold, k) # {} =>
                   RecordedThresholds(k) =
                       [j \in 1..(original_num_bins - 1) |->
                           LinearQuantile(OwnRows(fold, k), j, original_num_bins)]
        /\ (Table = QuantileFixture /\ original_num_bins = 2) =>
               RecordedThresholds(1) = (IF fold = 0 THEN <<Rat(3, 2)>> ELSE <<Rat(7, 2)>>)

\* the second fold of the worked example is scored with threshold 3.5
C25_Witness ==
    /\ JaccardScored
    /\ Table = QuantileFixture
    /\ original_num_bins = 2
    /\ fold = 1
    /\ RecordedThresholds(1) = <<Rat(7, 2)>>

----------------------------------------------------------------------------
(* The pooled error list of a bin *)

\* the scaled error of row i of the model's table
ScaledError(i) == RMul(Rat(TableError(i), 1), kwargs.error_scaling_factor)

\* the scaled errors of the rows of fold f, target position k and bin label
\* q, in row order
CellErrors(f, k, q) ==
    LET rows == Ascending({i \in OwnRows(f, k) :
                              Table[i][BinsColumn(uncertainty_type)] = q})
    IN  [n \in 1..Len(rows) |-> ScaledError(rows[n])]

\* targets k..last of fold f, then the folds f..num_folds-1, one after another
RECURSIVE TargetsFrom(_, _, _)
TargetsFrom(f, k, q) ==
    IF k > Len(targets) THEN <<>>
    ELSE CellErrors(f, k, q) \o TargetsFrom(f, k + 1, q)

RECURSIVE FoldsFrom(_, _)
FoldsFrom(f, q) ==
    IF f >= num_folds THEN <<>>
    ELSE TargetsFrom(f, 1, q) \o FoldsFrom(f + 1, q)

\* how often v occurs in a list
Occurrences(s, v) == Cardinality({i \in 1..Len(s) : s[i] = v})

\* the pooled list and the per-target flat list of output index b
PooledList(b) == StoredIn(returned["all error concat bins targets nosep"])[b + 1]
TargetList_All(k, b) ==
    StoredIn(returned["all error concat bins targets sep all"][k])[b + 1]

(* C26: in get_mean_errors the pooled list of a bin ('all error concat bins *)
(* targets nosep') is the flat list of the scaled sample errors of that bin *)
(* by ascending fold, then by target in the order of the targets list, then *)
(* by row; it holds the same values as the per-target flat lists of the bin *)
(* ('all error concat bins targets sep all') taken together, one value for  *)
(* every sample of the processed folds, targets and bin.                    *)
C26_PooledOrder ==
    ErrorReturned =>
        \A b \in BinIndexes :
            LET q == num_bins - 1 - b
            IN  /\ PooledList(b) = FoldsFrom(0, q)
                /\ \A v \in SeqToSet(PooledList(b)) \cup
                            UNION {SeqToSet(TargetList_All(k, b)) : k \in TargetPositions} :
                       Occurrences(PooledList(b), v) =
                           SumSeq([k \in TargetPositions |->
                                      Occurrences(TargetList_All(k, b), v)])
                /\ Len(PooledList(b)) =
                       Cardinality({i \in 1..Len(Table) :
                           /\ Table[i][FoldColumn] \in 0..(num_folds - 1)
                           /\ \E k \in TargetPositions : Table[i]["target_idx"] = targets[k]
                           /\ Table[i][BinsColumn(uncertainty_type)] = q})

\* one bin holds all three rows: the second target's row stands between the
\* first target's rows in the table and after them in the pooled list
C26_Witness ==
    /\ ErrorReturned
    /\ \E b \in BinIndexes :
          /\ Len(PooledList(b)) = MaxSamples
          /\ \A i \in 1..MaxSamples : Table[i][FoldColumn] = 0
          /\ PooledList(b)[1] = ScaledError(1)
          /\ PooledList(b)[2] = ScaledError(3)
          /\ PooledList(b)[3] = ScaledError(2)

----------------------------------------------------------------------------
(* Collapsing the middle bins, in bound estimation and in the partitioner *)

\* the first and the last entry of a list
FirstAndLast(s) == <<s[1], s[Len(s)]>>

\* a list of values as the id -> value dict bin_wise_jaccard reads them from
AsDict(values) == [i \in 1..Len(values) |-> <<i, values[i]>>]

\* the values of a list of one-element lists
Unwrapped(s) == [i \in 1..Len(s) |-> s[i][1]]

\* a quantile-mode call that is past its estimation loop
QuantileEstimated == BinningCall /\ type = "quantile" /\ pc \in {"combine", "done"}

\* the step that collapses and returns
CollapseStep ==
    (BinningCall /\ type = "quantile" /\ pc = "combine" /\ pc' = "done") =>
        /\ Len(uncert_boundaries) = num_bins - 1
        /\ Len(estimated_errors) = num_bins - 1
        /\ returned' = (IF combine_middle_bins
                        THEN <<FirstAndLast(uncert_boundaries),
                               FirstAndLast(estimated_errors)>>
                        ELSE <<uncert_boundaries, estimated_errors>>)

(* C27: for num_bins >= 2, quantile_binning_and_est_errors in quantile mode *)
(* returns exactly num_bins-1 boundaries and num_bins-1 estimated bounds,   *)
(* and with combine_middle_bins exactly 2 of each, the first and the last   *)
(* of the non-combined sequence; that is the collapse bin_wise_jaccard      *)
(* applies to its quantile thresholds (the boundaries equal the thresholds  *)
(* the partitioner takes of the same values), and the 2 thresholds make the *)
(* 3 bins the handlers use when combine_middle_bins is set.                 *)
C27_SameCollapse ==
    /\ [][CollapseStep]_vars
    /\ [](BinningReturned /\ type = "quantile" =>
            /\ Len(returned[1]) = (IF combine_middle_bins THEN 2 ELSE num_bins - 1)
            /\ Len(returned[2]) = Len(returned[1])
            /\ Unwrapped(returned[1]) =
                   quantile_thresholds(AsDict(uncertainties), num_bins,
                                       combine_middle_bins)
            /\ combine_middle_bins => Len(returned[1]) + 1 = CombinedBins)

\* four quantile bins: three different boundaries estimated, the middle one
\* dropped, the two outer ones returned with two different bounds
C27_Witness ==
    /\ BinningReturned /\ type = "quantile" /\ combine_middle_bins
    /\ num_bins = 4
    /\ returned[1][1] # returned[1][2]
    /\ returned[2][1] # returned[2][2]
    /\ \E k \in 1..(num_bins - 1) :
          <<np_quantile(sorted(uncertainties), k, num_bins)>>
              \notin {returned[1][1], returned[1][2]}

----------------------------------------------------------------------------
(* The two target-separated outputs of the Jaccard and the bound handler *)

\* a run of evaluate_jaccard or evaluate_bounds that holds an accumulator
SeparatedAccumulating == handler \in {"jaccard", "bound"} /\ fold_accumulator # <<>>

\* the accumulator's list of target position k and output index b
SepFoldwise(k, b) ==
    fold_accumulator["fold_all_bins_concat_targets_sep_foldwise"][k][b + 1]
SepAll(k, b) ==
    fold_accumulator["fold_all_bins_concat_targets_sep_all"][k][b + 1]

(* C28: in evaluate_jaccard and evaluate_bounds, after any number of folds, *)
(* the 'targets sep foldwise' and the 'targets sep all' data are equal for  *)
(* every target, key and bin: both are the list of the bin's per-fold       *)
(* values in fold order, exactly one value per fold accumulated; and so are *)
(* the two outputs evaluate() returns.                                      *)
C28_SeparatedOutputsEqual ==
    /\ SeparatedAccumulating =>
           \A k \in TargetPositions : \A b \in BinIndexes :
               /\ SepFoldwise(k, b) = SepAll(k, b)
               /\ Len(SepFoldwise(k, b)) = fold
               /\ \A f \in 0..(fold - 1) :
                      SepAll(k, b)[f + 1] = FoldwiseContribution(f, k, b)
    /\ (Returned /\ handler \in {"jaccard", "bound"}) =>
           /\ returned[FoldwiseOutput] = returned[AllOutput]
           /\ \A k \in TargetPositions : \A b \in BinIndexes :
                  Len(StoredIn(returned[AllOutput][k])[b + 1]) = num_folds

\* a run of evaluate_bounds with both folds accumulated and a target's bin
\* that scored differently in the two folds
C28_Witness ==
    /\ SeparatedAccumulating /\ handler = "bound"
    /\ fold = num_folds
    /\ \E k \in TargetPositions : \E b \in BinIndexes :
          /\ Len(SepAll(k, b)) = 2
          /\ SepAll(k, b)[1] # SepAll(k, b)[2]
          /\ SepFoldwise(k, b) = SepAll(k, b)

----------------------------------------------------------------------------
(* Rows outside the folds and targets of the run *)

\* the rows of a table that some fold of the run and some target own
OwnedRows(table) ==
    {i \in 1..Len(table) :
        /\ table[i][FoldColumn] \in 0..(num_folds - 1)
        /\ \E k \in TargetPositions : table[i]["target_idx"] = targets[k]}

RECURSIVE OwnedFrom(_, _, _)
OwnedFrom(table, rows, i) ==
    IF i > Len(table) THEN <<>>
    ELSE (IF i \in rows THEN <<table[i]>> ELSE <<>>) \o OwnedFrom(table, rows, i + 1)

\* the table without its foreign rows
WithoutForeignRows(table) == OwnedFrom(table, OwnedRows(table), 1)

\* two models whose tables differ in foreign rows only
SameOwnedRows(m, n) ==
    /\ WithoutForeignRows(bin_predictions[m]) = WithoutForeignRows(bin_predictions[n])
    /\ bin_predictions[m] # bin_predictions[n]

(* C29: rows of a model's sample table whose fold is not in 0..num_folds-1  *)
(* or whose target_idx is not in the targets list contribute to no output   *)
(* value of any of the three evaluators: two tables that differ in such     *)
(* rows only (one added, removed or changed) give the same returned data,   *)
(* and no run fails over such a row.                                        *)
C29_ForeignRowsIgnored ==
    /\ \A m, n \in DOMAIN bin_predictions :
           (Returned /\ SameOwnedRows(m, n)) =>
               \A d \in KeyedDicts(returned) :
                   Entry(DictAt(returned, d), ResultKey(m, TypeName)) =
                       Entry(DictAt(returned, d), ResultKey(n, TypeName))
    /\ pc # "raised"

\* a returned run of get_mean_errors over a table whose first row has the
\* uid and the fold of an owned row but a target the handler was not given
C29_Witness ==
    /\ ErrorReturned
    /\ SameOwnedRows(ModelName, OtherModelName)
    /\ LET table == bin_predictions[ModelName]
       IN  /\ table[1]["target_idx"] \notin {targets[k] : k \in TargetPositions}
           /\ table[1]["uid"] = table[2]["uid"]
           /\ table[1][FoldColumn] = table[2][FoldColumn]
           /\ table[1][BinsColumn(TypeName)] = table[2][BinsColumn(TypeName)]

----------------------------------------------------------------------------
(* The range of the ratio scores *)

(* C30: every ratio score the scorers record lies in [0,1] whenever they    *)
(* complete: the per-bin recall and precision of bin_wise_jaccard, and the  *)
(* per-bin accuracy, the per-target weighted summary and the cross-target   *)
(* per-bin weighted summary of bin_wise_bound_eval.                         *)
C30_RatiosInUnitInterval ==
    /\ JaccardScored =>
           \A k \in TargetPositions : \A b \in BinIndexes :
               /\ InUnitInterval(RecallOf(k, b))
               /\ InUnitInterval(PrecisionOf(k, b))
    /\ BoundScored =>
           /\ \A k \in TargetPositions : \A q \in BinIndexes :
                  /\ InUnitInterval(BinAccuracy(k, q))
                  /\ InUnitInterval(fold_result["mean all"][q + 1][k])
           /\ \A k \in TargetPositions :
                  InUnitInterval(scorer_locals.all_target_perc[k])
           /\ \A q \in BinIndexes :
                  InUnitInterval(fold_result["mean all bins"][q + 1])

\* bin_wise_bound_eval with a bin accuracy, a target summary and a bin
\* summary that are all proper fractions, beside a summary of exactly 1
C30_Witness ==
    /\ BoundScored
    /\ \E k \in TargetPositions : \E q \in BinIndexes :
          /\ BinAccuracy(k, q) \notin {Rat(0, 1), Rat(1, 1)}
          /\ scorer_locals.all_target_perc[k] \notin {Rat(0, 1), Rat(1, 1)}
    /\ \E q \in BinIndexes :
          fold_result["mean all bins"][q + 1] \notin {Rat(0, 1), Rat(1, 1)}
    /\ \E k \in TargetPositions : scorer_locals.all_target_perc[k] = Rat(1, 1)

=============================================================================
